---------------------------- MODULE Spec2Model ----------------------------
(***************************************************************************)
(* Model of the infocodec codec suite (src/infocodec/core): the six image  *)
(* compressors, their reconstructors, the two registries and the decode    *)
(* command of the CLI.                                                     *)
(*                                                                         *)
(* Representation of the Python values:                                    *)
(*   - an image (numpy uint8 array) is [shape |-> dims, data |-> symbols], *)
(*     data being the row-major flattening;                                *)
(*   - bytes are sequences of integers 0..255;                             *)
(*   - a str is a sequence of one-character strings, so that replace()     *)
(*     and lower() are computed, never assumed;                            *)
(*   - a tuple or list held in a metadata record is [py |-> "tuple" or     *)
(*     "list", v |-> elements], because tuple != list in Python;           *)
(*   - a dict is the sequence of its <<key, value>> items in insertion     *)
(*     order; a metadata record is a TLA+ record (its keys are its DOMAIN);*)
(*   - a call is [raised |-> FALSE, ...results] or [raised |-> TRUE,       *)
(*     error |-> exception class].                                         *)
(***************************************************************************)
EXTENDS Integers, Sequences, FiniteSets, TLC

(***************************************************************************)
(* Bounds of the model and constants of the program.                       *)
(***************************************************************************)
\* compress calls made on the instance of one session
MaxCalls == 2
\* number of symbols of the largest small image
MaxPixels == 3
\* number of symbols of the long images (runs longer than the RLE cap)
LongLen == 257
\* number of bytes of the longest arbitrary payload handed to a decoder
MaxPayload == 3
\* number of symbols of the largest image given to an instance used before
MaxLaterPixels == 2

\* rle.py:49  a run is closed when its count reaches 255
RunCap == 255
\* dct.py:24  default block_size
DefaultBlockSize == 8
\* sparse.py:24  default sampling_rate
DefaultSamplingRate == 4
\* sparse reconstructor, mid-gray fill
MidGray == 128
\* a byte of a float32 DCT coefficient: its value is not modelled
CoeffByte == 256
\* a pixel produced by floating-point interpolation or inverse transform:
\* its value is not modelled
FloatPixel == 257

\* the 8-bit symbols images are drawn from
Symbols == {0, 1, 255}

(***************************************************************************)
(* Generic helpers.                                                        *)
(***************************************************************************)
Range(s) == {s[i] : i \in DOMAIN s}

RECURSIVE Prod(_)
\* np.prod(shape)
Prod(dims) == IF dims = <<>> THEN 1 ELSE Head(dims) * Prod(Tail(dims))

Repeat(x, n) == [i \in 1..n |-> x]

Max2(a, b) == IF a >= b THEN a ELSE b

Tuple(d) == [py |-> "tuple", v |-> d]
List(d) == [py |-> "list", v |-> d]

Ok(shape, data) == [raised |-> FALSE, shape |-> shape, data |-> data]
Raise(e) == [raised |-> TRUE, error |-> e]

\* a float: a fraction num/den, +infinity or nan; ZeroDivisionError is the
\* outcome of a division of Python numbers by zero
Num(n, d) == [kind |-> "num", num |-> n, den |-> d]
Inf == [kind |-> "inf"]
NaN == [kind |-> "nan"]
ZeroDivisionError == [kind |-> "ZeroDivisionError"]

\* a / b of two Python numbers
Div(a, b) == IF b = 0 THEN ZeroDivisionError ELSE Num(a, b)

IsZero(x) == x.kind = "num" /\ x.num = 0
IsFinite(x) == x.kind = "num"

\* dict.get(key, default) on a metadata record
Get(md, key, default) == IF key \in DOMAIN md THEN md[key] ELSE default

None == [py |-> "None"]


(***************************************************************************)
(* A Python for loop over the indices lo..hi: Step is the loop body, st    *)
(* the variables it updates.  The indices are visited in increasing order; *)
(* the range is halved only to keep the evaluation shallow, and the first  *)
(* half is computed before the second starts.                              *)
(***************************************************************************)
\* Rest applied to the value of first, which is computed once and before
\* Rest is entered
Then(first, Rest(_)) == IF first = first THEN Rest(first) ELSE first

RECURSIVE Fold(_, _, _, _)
Fold(Step(_, _), st, lo, hi) ==
  IF lo > hi THEN st
  ELSE IF lo = hi THEN Step(st, lo)
  ELSE Then(Fold(Step, st, lo, (lo + hi) \div 2),
            LAMBDA left : Fold(Step, left, ((lo + hi) \div 2) + 1, hi))

(***************************************************************************)
(* Strings.                                                                 *)
(***************************************************************************)
UpperCase == <<"A", "B", "C", "D", "E", "F", "G", "H", "I", "J", "K", "L", "M", "N", "O", "P", "Q", "R", "S", "T", "U", "V", "W", "X", "Y", "Z">>
LowerCase == <<"a", "b", "c", "d", "e", "f", "g", "h", "i", "j", "k", "l", "m", "n", "o", "p", "q", "r", "s", "t", "u", "v", "w", "x", "y", "z">>

\* str.lower()
lower(s) ==
  [i \in DOMAIN s |->
     IF \E k \in DOMAIN UpperCase : UpperCase[k] = s[i]
     THEN LowerCase[CHOOSE k \in DOMAIN UpperCase : UpperCase[k] = s[i]]
     ELSE s[i]]

RECURSIVE replace(_, _)
\* str.replace(old, ''): the occurrences of old are removed, left to right
replace(s, old) ==
  IF Len(s) < Len(old) THEN s
  ELSE IF SubSeq(s, 1, Len(old)) = old
       THEN replace(SubSeq(s, Len(old) + 1, Len(s)), old)
       ELSE <<Head(s)>> \o replace(Tail(s), old)

S_Compressor == <<"C", "o", "m", "p", "r", "e", "s", "s", "o", "r">>
S_Reconstructor == <<"R", "e", "c", "o", "n", "s", "t", "r", "u", "c", "t", "o", "r">>
S_uint8 == <<"u", "i", "n", "t", "8">>
S_Unknown == <<"U", "n", "k", "n", "o", "w", "n">>
S_test == <<"t", "e", "s", "t">>
K_naive == <<"n", "a", "i", "v", "e">>
K_direct == <<"d", "i", "r", "e", "c", "t">>
K_rle == <<"r", "l", "e">>
K_differential == <<"d", "i", "f", "f", "e", "r", "e", "n", "t", "i", "a", "l">>
K_huffman == <<"h", "u", "f", "f", "m", "a", "n">>
K_sparse == <<"s", "p", "a", "r", "s", "e">>
K_dct == <<"d", "c", "t">>
N_NaiveCompressor == <<"N", "a", "i", "v", "e", "C", "o", "m", "p", "r", "e", "s", "s", "o", "r">>
N_RLECompressor == <<"R", "L", "E", "C", "o", "m", "p", "r", "e", "s", "s", "o", "r">>
N_DifferentialCompressor == <<"D", "i", "f", "f", "e", "r", "e", "n", "t", "i", "a", "l", "C", "o", "m", "p", "r", "e", "s", "s", "o", "r">>
N_HuffmanCompressor == <<"H", "u", "f", "f", "m", "a", "n", "C", "o", "m", "p", "r", "e", "s", "s", "o", "r">>
N_SparseCompressor == <<"S", "p", "a", "r", "s", "e", "C", "o", "m", "p", "r", "e", "s", "s", "o", "r">>
N_DCTCompressor == <<"D", "C", "T", "C", "o", "m", "p", "r", "e", "s", "s", "o", "r">>
M_Naive == <<"N", "a", "i", "v", "e">>
M_RLE == <<"R", "L", "E">>
M_Differential == <<"D", "i", "f", "f", "e", "r", "e", "n", "t", "i", "a", "l">>
M_Huffman == <<"H", "u", "f", "f", "m", "a", "n">>
M_Sparse == <<"S", "p", "a", "r", "s", "e">>
M_DCT == <<"D", "C", "T">>
M_Direct == <<"D", "i", "r", "e", "c", "t">>
M_RLEDecode == <<"R", "L", "E", " ", "D", "e", "c", "o", "d", "e">>
M_DifferentialDecode == <<"D", "i", "f", "f", "e", "r", "e", "n", "t", "i", "a", "l", " ", "D", "e", "c", "o", "d", "e">>
M_HuffmanDecode == <<"H", "u", "f", "f", "m", "a", "n", " ", "D", "e", "c", "o", "d", "e">>
M_SparseReconstruction == <<"S", "p", "a", "r", "s", "e", " ", "R", "e", "c", "o", "n", "s", "t", "r", "u", "c", "t", "i", "o", "n">>
M_DCTReconstruction == <<"D", "C", "T", " ", "R", "e", "c", "o", "n", "s", "t", "r", "u", "c", "t", "i", "o", "n">>

(***************************************************************************)
(* base.py                                                                  *)
(***************************************************************************)
\* a registry key derived without lower-casing the class name
registry_key_nolower(class_name) ==
  replace(replace(class_name, S_Compressor), S_Reconstructor)

\* _registry_key
registry_key(class_name) ==
  lower(replace(replace(class_name, S_Compressor), S_Reconstructor))

\* the six compressor classes and their __name__
CompressorClasses ==
  {"NaiveCompressor", "RLECompressor", "DifferentialCompressor",
   "HuffmanCompressor", "SparseCompressor", "DCTCompressor"}

ClassName(cls) ==
  CASE cls = "NaiveCompressor" -> N_NaiveCompressor
    [] cls = "RLECompressor" -> N_RLECompressor
    [] cls = "DifferentialCompressor" -> N_DifferentialCompressor
    [] cls = "HuffmanCompressor" -> N_HuffmanCompressor
    [] cls = "SparseCompressor" -> N_SparseCompressor
    [] cls = "DCTCompressor" -> N_DCTCompressor

\* a record that names the method by the class name without its suffix,
\* letter case kept
create_metadata_titled(cls, original_shape) ==
  [shape |-> Tuple(original_shape),
   dtype |-> S_uint8,
   method |-> replace(replace(ClassName(cls), S_Compressor), S_Reconstructor)]

\* ImageCompressor._create_metadata
create_metadata(cls, original_shape) ==
  [shape |-> Tuple(original_shape),
   dtype |-> S_uint8,
   method |-> registry_key(ClassName(cls))]

\* compressors/__init__.py
COMPRESSORS ==
  (K_naive :> "NaiveCompressor") @@ (K_rle :> "RLECompressor") @@
  (K_differential :> "DifferentialCompressor") @@ (K_huffman :> "HuffmanCompressor") @@
  (K_sparse :> "SparseCompressor") @@ (K_dct :> "DCTCompressor")

\* reconstructors/__init__.py
RECONSTRUCTORS ==
  (K_naive :> "DirectReconstructor") @@ (K_direct :> "DirectReconstructor") @@
  (K_rle :> "RLEReconstructor") @@ (K_differential :> "DifferentialReconstructor") @@
  (K_huffman :> "HuffmanReconstructor") @@ (K_sparse :> "SparseReconstructor") @@
  (K_dct :> "DCTReconstructor")

\* the truth value Python gives a shape held in a metadata record
Truthy(x) == x.py \in {"tuple", "list"} /\ x.v # <<>>

\* isinstance(shape, (list, tuple)) and len(shape) >= 2
ValidShape(shape) == shape.py \in {"tuple", "list"} /\ Len(shape.v) >= 2

\* ImageReconstructor._postprocess_image
postprocess_image(image, metadata) ==
  LET target_shape == Get(metadata, "shape", None)
  IN  IF Truthy(target_shape)
         /\ (target_shape.py = "list" \/ image.shape # target_shape.v)
      THEN IF Len(target_shape.v) = 2
           THEN \* image.reshape(target_shape)
                IF Prod(target_shape.v) = Len(image.data)
                THEN Ok(target_shape.v, image.data)
                ELSE Raise("ValueError")
           ELSE IF Len(target_shape.v) = 3 /\ Len(image.shape) = 2
                THEN \* np.stack([image] * 3, axis=-1)
                     Ok(image.shape \o <<3>>,
                        [i \in 1..(3 * Len(image.data)) |-> image.data[((i - 1) \div 3) + 1]])
                ELSE image
      ELSE image

\* np.pad(flat, (0, n), mode='edge'): an empty array cannot be extended
pad_edge(flat, n) ==
  IF Len(flat) = 0
  THEN Raise("ValueError")
  ELSE Ok(<<Len(flat) + n>>, flat \o Repeat(flat[Len(flat)], n))

\* the size handling shared by the Direct, RLE, Differential and Huffman
\* reconstructors: pad or truncate to the expected size, then reshape
fit_to_shape(flat, shape) ==
  IF ValidShape(shape)
  THEN LET expected_size == Prod(shape.v)
       IN  IF Len(flat) < expected_size
           THEN LET padded == pad_edge(flat, expected_size - Len(flat))
                IN  IF padded.raised THEN padded ELSE Ok(shape.v, padded.data)
           ELSE IF Len(flat) > expected_size
                THEN Ok(shape.v, SubSeq(flat, 1, expected_size))
                ELSE Ok(shape.v, flat)
  ELSE Ok(<<Len(flat)>>, flat)

\* the tail of every reconstruct: fit, then _postprocess_image
finish(flat, metadata) ==
  LET shape == Get(metadata, "original_shape", Get(metadata, "shape", None))
      fitted == fit_to_shape(flat, shape)
  IN  IF fitted.raised THEN fitted ELSE postprocess_image(fitted, metadata)

(***************************************************************************)
(* compressors/image/naive.py, rle.py, differential.py                      *)
(*                                                                         *)
(* A compress call returns [raised, payload, metadata, stats]; the         *)
(* floating-point statistics (entropy, ratios) are not part of the record. *)
(***************************************************************************)
Compressed(payload, metadata, stats) ==
  [raised |-> FALSE, payload |-> payload, metadata |-> metadata, stats |-> stats]

\* NaiveCompressor.compress
NaiveCompress(image) ==
  LET flat_data == image.data
      compressed_bytes == flat_data
      stats == [method |-> M_Naive,
                original_pixels |-> Len(flat_data),
                compressed_bytes |-> Len(compressed_bytes),
                bits_per_pixel |-> 8,
                compression_ratio |-> Num(1, 1)]
      metadata == [original_shape |-> Tuple(image.shape)]
                  @@ create_metadata("NaiveCompressor", image.shape)
  IN  Compressed(compressed_bytes, metadata, stats)

\* the run-length loop with no cap on the count of a run
rle_encode_uncapped(flat_data) ==
  IF Len(flat_data) = 0 THEN <<>>
  ELSE LET Step(st, i) ==
             IF flat_data[i] = st.current_val
             THEN [st EXCEPT !.count = st.count + 1]
             ELSE [rle_encoded |-> st.rle_encoded \o <<st.current_val, st.count % 256>>,
                   current_val |-> flat_data[i],
                   count |-> 1]
           last == Fold(Step,
                        [rle_encoded |-> <<>>, current_val |-> flat_data[1], count |-> 1],
                        2, Len(flat_data))
       IN  last.rle_encoded \o <<last.current_val, last.count % 256>>

\* the run-length loop closing a run one symbol before the cap
rle_encode_early_split(flat_data) ==
  IF Len(flat_data) = 0 THEN <<>>
  ELSE LET Step(st, i) ==
             IF flat_data[i] = st.current_val /\ st.count < RunCap - 1
             THEN [st EXCEPT !.count = st.count + 1]
             ELSE [rle_encoded |-> st.rle_encoded \o <<st.current_val, st.count>>,
                   current_val |-> flat_data[i],
                   count |-> 1]
           last == Fold(Step,
                        [rle_encoded |-> <<>>, current_val |-> flat_data[1], count |-> 1],
                        2, Len(flat_data))
       IN  last.rle_encoded \o <<last.current_val, last.count>>

\* RLECompressor.compress, the run-length loop: rle_encoded
rle_encode(flat_data) ==
  IF Len(flat_data) = 0 THEN <<>>
  ELSE LET Step(st, i) ==
             IF flat_data[i] = st.current_val /\ st.count < RunCap
             THEN [st EXCEPT !.count = st.count + 1]
             ELSE [rle_encoded |-> st.rle_encoded \o <<st.current_val, st.count>>,
                   current_val |-> flat_data[i],
                   count |-> 1]
           last == Fold(Step,
                        [rle_encoded |-> <<>>, current_val |-> flat_data[1], count |-> 1],
                        2, Len(flat_data))
       IN  last.rle_encoded \o <<last.current_val, last.count>>

\* compress reporting no ratio below 1
RLECompressMasked(image) ==
  LET flat_data == image.data
      rle_encoded == rle_encode(flat_data)
      compressed_bytes == rle_encoded
      original_size == Len(flat_data)
      compressed_size == Len(compressed_bytes)
      compression_ratio == IF compressed_size > original_size THEN Num(1, 1)
                           ELSE IF compressed_size > 0
                           THEN Div(original_size, compressed_size) ELSE Inf
      stats == [method |-> M_RLE,
                original_pixels |-> original_size,
                compressed_bytes |-> compressed_size,
                rle_pairs |-> Len(rle_encoded) \div 2,
                compression_ratio |-> compression_ratio]
      metadata == [original_shape |-> Tuple(image.shape),
                   rle_pairs |-> Len(rle_encoded) \div 2]
                  @@ create_metadata("RLECompressor", image.shape)
  IN  Compressed(compressed_bytes, metadata, stats)

\* RLECompressor.compress
RLECompress(image) ==
  LET flat_data == image.data
      rle_encoded == rle_encode(flat_data)
      compressed_bytes == rle_encoded
      original_size == Len(flat_data)
      compressed_size == Len(compressed_bytes)
      compression_ratio == IF compressed_size > 0
                           THEN Div(original_size, compressed_size) ELSE Inf
      stats == [method |-> M_RLE,
                original_pixels |-> original_size,
                compressed_bytes |-> compressed_size,
                rle_pairs |-> Len(rle_encoded) \div 2,
                compression_ratio |-> compression_ratio]
      metadata == [original_shape |-> Tuple(image.shape),
                   rle_pairs |-> Len(rle_encoded) \div 2]
                  @@ create_metadata("RLECompressor", image.shape)
  IN  Compressed(compressed_bytes, metadata, stats)

\* ndarray.tobytes() of an int16 array: two bytes per value, low byte first
int16_tobytes(values) ==
  [k \in 1..(2 * Len(values)) |->
     LET u == values[(k + 1) \div 2] % 65536
     IN  IF k % 2 = 1 THEN u % 256 ELSE u \div 256]

\* np.frombuffer(bytes, dtype=np.int16), for an even number of bytes
int16_frombuffer(bytes) ==
  [k \in 1..(Len(bytes) \div 2) |->
     LET u == bytes[2 * k - 1] + 256 * bytes[2 * k]
     IN  IF u >= 32768 THEN u - 65536 ELSE u]

\* DifferentialCompressor.compress, diff_encoded: the first value, then
\* np.diff of the symbols held as int16
diff_encode(flat_data) ==
  [i \in 1..Len(flat_data) |->
     IF i = 1 THEN flat_data[1] ELSE flat_data[i] - flat_data[i - 1]]

Abs(x) == IF x < 0 THEN -x ELSE x

\* int(np.ceil(np.log2(max_diff + 1))) + 1 if max_diff > 0 else 1
bits_needed(max_diff) ==
  IF max_diff > 0
  THEN (CHOOSE b \in 0..16 : 2 ^ b >= max_diff + 1 /\ (b = 0 \/ 2 ^ (b - 1) < max_diff + 1)) + 1
  ELSE 1

\* DifferentialCompressor.compress
DifferentialCompress(image) ==
  LET flat_data == image.data
      diff_encoded == diff_encode(flat_data)
      compressed_bytes == int16_tobytes(diff_encoded)
      max_diff == IF Len(diff_encoded) > 0
                  THEN CHOOSE m \in {Abs(diff_encoded[i]) : i \in DOMAIN diff_encoded} :
                         \A i \in DOMAIN diff_encoded : Abs(diff_encoded[i]) <= m
                  ELSE 0
      stats == [method |-> M_Differential,
                original_pixels |-> Len(flat_data),
                compressed_bytes |-> Len(compressed_bytes),
                max_difference |-> max_diff,
                bits_per_symbol |-> bits_needed(max_diff),
                compression_ratio |-> IF Len(compressed_bytes) > 0
                                      THEN Div(Len(flat_data) * 8, Len(compressed_bytes))
                                      ELSE Inf]
      metadata == [original_shape |-> Tuple(image.shape),
                   max_diff |-> max_diff,
                   bits_per_symbol |-> bits_needed(max_diff)]
                  @@ create_metadata("DifferentialCompressor", image.shape)
  IN  Compressed(compressed_bytes, metadata, stats)

(***************************************************************************)
(* reconstructors/image/direct.py, rle.py, differential.py                  *)
(***************************************************************************)
\* DirectReconstructor.reconstruct
DirectReconstruct(compressed_bytes, metadata) ==
  finish(compressed_bytes, metadata)

\* RLEReconstructor.reconstruct, the expansion loop: decoded
rle_decode(rle_data) ==
  LET Step(decoded, k) ==
        \* i = 2 * (k - 1) is the loop index; the pair is skipped when the
        \* count byte is missing
        IF 2 * k <= Len(rle_data)
        THEN decoded \o Repeat(rle_data[2 * k - 1], rle_data[2 * k])
        ELSE decoded
  IN  Fold(Step, <<>>, 1, (Len(rle_data) + 1) \div 2)

\* RLEReconstructor.reconstruct
RLEReconstruct(compressed_bytes, metadata) ==
  finish(rle_decode(compressed_bytes), metadata)

\* np.cumsum(diff_data).astype(np.uint8): the sums are taken in the platform
\* integer and the cast keeps the low 8 bits
cumsum_uint8(diff_data) ==
  LET Step(st, i) ==
        [sum |-> st.sum + diff_data[i],
         out |-> Append(st.out, (st.sum + diff_data[i]) % 256)]
  IN  Fold(Step, [sum |-> 0, out |-> <<>>], 1, Len(diff_data)).out

\* DifferentialReconstructor.reconstruct
DifferentialReconstruct(compressed_bytes, metadata) ==
  IF Len(compressed_bytes) % 2 # 0
  THEN \* np.frombuffer: buffer size must be a multiple of element size
       Raise("ValueError")
  ELSE finish(cumsum_uint8(int16_frombuffer(compressed_bytes)), metadata)

(***************************************************************************)
(* compressors/image/huffman.py                                             *)
(*                                                                         *)
(* A HuffmanNode is [leaf |-> TRUE, freq, symbol] or [leaf |-> FALSE,      *)
(* freq, left, right].  A codeword is a sequence of bits 0/1.  The heap is *)
(* the Python list heapq works on; positions are 0-based as in heapq, so   *)
(* position p is element p + 1 of the sequence.                            *)
(***************************************************************************)
Leaf(freq, symbol) == [leaf |-> TRUE, freq |-> freq, symbol |-> symbol]
Parent(left, right) ==
  [leaf |-> FALSE, freq |-> left.freq + right.freq, left |-> left, right |-> right]

\* HuffmanNode.__lt__
Lt(a, b) == a.freq < b.freq

RECURSIVE siftdown(_, _, _, _)
\* heapq._siftdown: newitem moves up from pos while it is less than its parent
siftdown(heap, startpos, pos, newitem) ==
  LET parentpos == (pos - 1) \div 2
  IN  IF pos > startpos /\ Lt(newitem, heap[parentpos + 1])
      THEN siftdown([heap EXCEPT ![pos + 1] = heap[parentpos + 1]],
                    startpos, parentpos, newitem)
      ELSE [heap EXCEPT ![pos + 1] = newitem]

RECURSIVE siftup_loop(_, _, _, _)
\* heapq._siftup, the loop that bubbles the smaller child up to a leaf
siftup_loop(heap, startpos, pos, newitem) ==
  LET endpos == Len(heap)
      childpos == 2 * pos + 1
      rightpos == childpos + 1
      smaller == IF rightpos < endpos /\ ~Lt(heap[childpos + 1], heap[rightpos + 1])
                 THEN rightpos ELSE childpos
  IN  IF childpos < endpos
      THEN siftup_loop([heap EXCEPT ![pos + 1] = heap[smaller + 1]],
                       startpos, smaller, newitem)
      ELSE siftdown(heap, startpos, pos, newitem)

\* heapq._siftup
siftup(heap, pos) == siftup_loop(heap, pos, pos, heap[pos + 1])

\* heapq.heapify: for i in reversed(range(n // 2)): _siftup(x, i), from
\* position i down to position 0
heapify_from(heap, i) ==
  LET Step(x, k) == siftup(x, i + 1 - k)
  IN  Fold(Step, heap, 1, i + 1)

heapify(heap) == heapify_from(heap, (Len(heap) \div 2) - 1)

\* heapq.heappop: [item, heap]
heappop(heap) ==
  LET lastelt == heap[Len(heap)]
      rest == SubSeq(heap, 1, Len(heap) - 1)
  IN  IF rest # <<>>
      THEN [item |-> heap[1], heap |-> siftup([rest EXCEPT ![1] = lastelt], 0)]
      ELSE [item |-> lastelt, heap |-> rest]

\* heapq.heappush
heappush(heap, item) ==
  siftdown(Append(heap, item), 0, Len(heap), item)

\* the members of S among lo..hi, in increasing order
SortedFrom(S, lo, hi) ==
  SelectSeq([i \in 1..(hi - lo + 1) |-> lo + i - 1], LAMBDA v : v \in S)

\* np.unique(flat_data, return_counts=True) as the dict freq_dict: the
\* symbols in increasing order, each with its count
SortedSeq(S) ==
  IF S = {} THEN <<>>
  ELSE SortedFrom(S, CHOOSE x \in S : \A y \in S : x <= y,
                     CHOOSE x \in S : \A y \in S : y <= x)

Count(flat_data, v) == Cardinality({i \in DOMAIN flat_data : flat_data[i] = v})

\* a frequency table in the order in which the symbols first occur
freq_dict_first_seen(flat_data) ==
  LET firsts == {i \in DOMAIN flat_data : \A j \in 1..(i - 1) : flat_data[j] # flat_data[i]}
      order == SortedSeq(firsts)
  IN  [k \in DOMAIN order |-> <<flat_data[order[k]], Count(flat_data, flat_data[order[k]])>>]

freq_dict_of(flat_data) ==
  LET values == SortedSeq(Range(flat_data))
  IN  [k \in DOMAIN values |-> <<values[k], Count(flat_data, values[k])>>]

\* _build_huffman_tree, the while loop: a round pops two nodes and pushes
\* one, so len(heap) > 1 holds for len(heap) - 1 rounds
merge_loop(heap) ==
  LET Round(h, k) ==
        LET p1 == heappop(h)
            p2 == heappop(p1.heap)
        IN  heappush(p2.heap, Parent(p1.item, p2.item))
  IN  Fold(Round, heap, 1, Len(heap) - 1)

\* HuffmanCompressor._build_huffman_tree, for a non-empty freq_dict
build_huffman_tree(freq_dict) ==
  LET nodes == [k \in DOMAIN freq_dict |-> Leaf(freq_dict[k][2], freq_dict[k][1])]
      heap == heapify(SubSeq(nodes, 1, Len(nodes)))
  IN  merge_loop(heap)[1]

\* dict[key] = value: a new key goes last, a known key keeps its place
DictSet(d, key, value) ==
  IF \E i \in DOMAIN d : d[i][1] = key
  THEN [i \in DOMAIN d |-> IF d[i][1] = key THEN <<key, value>> ELSE d[i]]
  ELSE Append(d, <<key, value>>)

DictGet(d, key) == d[CHOOSE i \in DOMAIN d : d[i][1] = key][2]
DictKeys(d) == {d[i][1] : i \in DOMAIN d}

RECURSIVE generate_codes_flat(_, _, _)
\* code generation that gives both children of a node the same branch bit
generate_codes_flat(huffman_codes, node, code) ==
  IF node.leaf
  THEN DictSet(huffman_codes, node.symbol, IF code = <<>> THEN <<0>> ELSE code)
  ELSE Then(generate_codes_flat(huffman_codes, node.left, code \o <<0>>),
            LAMBDA left : generate_codes_flat(left, node.right, code \o <<0>>))

RECURSIVE generate_codes(_, _, _)
\* HuffmanCompressor._generate_codes: writes into self.huffman_codes; the
\* left subtree has written its codes (left) when the right one is entered
generate_codes(huffman_codes, node, code) ==
  IF node.leaf
  THEN DictSet(huffman_codes, node.symbol, IF code = <<>> THEN <<0>> ELSE code)
  ELSE Then(generate_codes(huffman_codes, node.left, code \o <<0>>),
            LAMBDA left : generate_codes(left, node.right, code \o <<1>>))

\* ''.join(self.huffman_codes[int(val)] for val in flat_data)
encode_bits(huffman_codes, flat_data) ==
  LET Step(bits, i) == bits \o DictGet(huffman_codes, flat_data[i])
  IN  Fold(Step, <<>>, 1, Len(flat_data))

\* int(encoded_bits, 2).to_bytes(len(encoded_bits) // 8, byteorder='big')
bits_to_bytes(bits) ==
  [k \in 1..(Len(bits) \div 8) |->
     LET b(j) == bits[8 * (k - 1) + j]
     IN  128 * b(1) + 64 * b(2) + 32 * b(3) + 16 * b(4)
         + 8 * b(5) + 4 * b(6) + 2 * b(7) + b(8)]

\* n.to_bytes(4, byteorder='big')
u32_be(n) ==
  <<(n \div 16777216) % 256, (n \div 65536) % 256, (n \div 256) % 256, n % 256>>

\* int.from_bytes(b, byteorder='big') of four bytes.  The value is only ever
\* compared with lengths of payloads, so values from 2^30 on, which exceed
\* every such length, are all given as 2^30.
u32_from_be(b) ==
  IF b[1] >= 64
  THEN 2 ^ 30
  ELSE 16777216 * b[1] + 65536 * b[2] + 256 * b[3] + b[4]

RECURSIVE int_to_str(_)
\* str(n) for n >= 0, as ASCII bytes
int_to_str(n) ==
  IF n < 10 THEN <<48 + n>> ELSE int_to_str(n \div 10) \o <<48 + (n % 10)>>

\* json.dumps(self.huffman_codes).encode('utf-8'):
\* {"<symbol>": "<bits>", ...} with ", " and ": " as separators
json_dumps_codes(huffman_codes) ==
  LET item(i) == <<34>> \o int_to_str(huffman_codes[i][1]) \o <<34, 58, 32, 34>>
                 \o [j \in DOMAIN huffman_codes[i][2] |-> 48 + huffman_codes[i][2][j]]
                 \o <<34>>
      Step(out, i) == out \o (IF i > 1 THEN <<44, 32>> ELSE <<>>) \o item(i)
  IN  <<123>> \o Fold(Step, <<>>, 1, Len(huffman_codes)) \o <<125>>

\* the code table a compress call leaves in self.huffman_codes, given the
\* table the instance held before the call
codes_after(huffman_codes, flat_data) ==
  IF Len(flat_data) = 0
  THEN <<>>
  ELSE generate_codes(huffman_codes, build_huffman_tree(freq_dict_of(flat_data)), <<>>)

huffman_payload(huffman_codes, flat_data) ==
  IF Len(flat_data) = 0
  THEN <<>>
  ELSE LET bits == encode_bits(huffman_codes, flat_data)
           padding == (8 - (Len(bits) % 8)) % 8
           encoded_bytes == bits_to_bytes(bits \o Repeat(0, padding))
           tree_bytes == json_dumps_codes(huffman_codes)
       IN  u32_be(Len(tree_bytes)) \o tree_bytes \o <<padding>> \o encoded_bytes

(***************************************************************************)
(* core/metrics.py.  A float is kept in fixed point: np.log2 and the       *)
(* entropy are in units of 2^-16 bit.  log2_fixed(n) is the first 16       *)
(* fractional bits of log2(n), computed by repeated squaring of the        *)
(* mantissa (28 fractional bits, squared in two halves so that no product  *)
(* leaves 31 bits); it is exact for the powers of two and at most one unit *)
(* below log2(n) otherwise.                                                *)
(***************************************************************************)
Log2Unit == 2 ^ 16

floor_log2(n) == CHOOSE e \in 0..28 : 2 ^ e <= n /\ n < 2 ^ (e + 1)

\* np.log2(n) for an integer n >= 1
log2_fixed(n) ==
  LET e == floor_log2(n)
      Step(st, k) ==
        LET a == st.x \div (2 ^ 14)
            b == st.x % (2 ^ 14)
            sq == a * a + ((2 * a * b) \div (2 ^ 14)) + ((b * b) \div (2 ^ 28))
        IN  IF sq >= 2 ^ 29
            THEN [x |-> sq \div 2, bits |-> 2 * st.bits + 1]
            ELSE [x |-> sq, bits |-> 2 * st.bits]
      r == Fold(Step, [x |-> n * (2 ^ (28 - e)), bits |-> 0], 1, 16)
  IN  e * Log2Unit + r.bits

\* calculate_entropy before the division by the number of symbols:
\* -sum(counts * log2(counts / counts.sum()))
entropy_sum(flat_data) ==
  LET values == SortedSeq(Range(flat_data))
      total == Len(flat_data)
      Step(acc, k) ==
        LET count == Count(flat_data, values[k])
        IN  acc + count * (log2_fixed(total) - log2_fixed(count))
  IN  Fold(Step, 0, 1, Len(values))

\* the sum without the division by the number of symbols
entropy_unnormalised(flat_data) == entropy_sum(flat_data)

\* calculate_entropy(data): for no symbol at all the sum is empty
calculate_entropy(flat_data) ==
  IF Len(flat_data) = 0 THEN 0 ELSE entropy_sum(flat_data) \div Len(flat_data)

\* a sum of the codeword lengths that leaves the counts out
code_length_unweighted(huffman_codes, flat_data) ==
  LET values == SortedSeq(Range(flat_data))
      Step(acc, k) == acc + Len(DictGet(huffman_codes, values[k]))
  IN  Fold(Step, 0, 1, Len(values))

\* sum(len(self.huffman_codes[int(val)]) * count for val, count in zip(values, counts))
code_length_sum(huffman_codes, flat_data) ==
  LET values == SortedSeq(Range(flat_data))
      Step(acc, k) ==
        acc + Len(DictGet(huffman_codes, values[k])) * Count(flat_data, values[k])
  IN  Fold(Step, 0, 1, Len(values))

\* the 'efficiency' statistic, original_entropy / avg_code_length * 100, in
\* hundredths of a percent; 0 when avg_code_length is 0
huffman_efficiency(huffman_codes, flat_data) ==
  LET bits == IF huffman_codes = <<>> THEN 0 ELSE code_length_sum(huffman_codes, flat_data)
      s == entropy_sum(flat_data)
  IN  IF bits > 0
      THEN (625 * (s \div 4096) + ((625 * (s % 4096)) \div 4096)) \div bits
      ELSE 0

(***************************************************************************)
(* HuffmanCompressor.compress.  self.huffman_codes is a reference to a     *)
(* dict: objs is the store of the dict objects created so far, ref the     *)
(* object self.huffman_codes is bound to.  An empty image rebinds the      *)
(* attribute to a new empty dict; any other image writes into the dict it  *)
(* is bound to.  The metadata record holds the reference, not a copy.      *)
(***************************************************************************)
HuffmanCompress(image, objs, ref) ==
  LET flat_data == image.data
      huffman_codes == codes_after(objs[ref], flat_data)
      new_ref == IF Len(flat_data) = 0 THEN Len(objs) + 1 ELSE ref
      new_objs == IF Len(flat_data) = 0
                  THEN Append(objs, huffman_codes)
                  ELSE [objs EXCEPT ![ref] = huffman_codes]
      compressed_bytes == huffman_payload(huffman_codes, flat_data)
      stats == [method |-> M_Huffman,
                original_pixels |-> Len(flat_data),
                compressed_bytes |-> Len(compressed_bytes),
                num_symbols |-> Len(huffman_codes),
                entropy |-> calculate_entropy(flat_data),
                efficiency |-> huffman_efficiency(huffman_codes, flat_data),
                compression_ratio |-> IF Len(compressed_bytes) > 0
                                      THEN Div(Len(flat_data) * 8, Len(compressed_bytes))
                                      ELSE Inf]
      metadata == [original_shape |-> Tuple(image.shape),
                   huffman_codes |-> new_ref,
                   num_symbols |-> Len(huffman_codes)]
                  @@ create_metadata("HuffmanCompressor", image.shape)
  IN  [raised |-> FALSE, payload |-> compressed_bytes, metadata |-> metadata,
       stats |-> stats, objs |-> new_objs, ref |-> new_ref]

(***************************************************************************)
(* reconstructors/image/huffman.py                                          *)
(*                                                                         *)
(* The huffman_codes entry the reconstructor reads is [keytype, items]:    *)
(* the items of the dict and whether its keys are int (a record handed     *)
(* over in memory) or str (a record read back from JSON).                  *)
(***************************************************************************)
IntDict(items) == [keytype |-> "int", items |-> items]
StrDict(items) == [keytype |-> "str", items |-> items]

DigitChars == <<"0", "1", "2", "3", "4", "5", "6", "7", "8", "9">>

\* a conversion that reads the digits from the last to the first
str_to_int_reversed(k) ==
  LET digit(c) == (CHOOSE d \in DOMAIN DigitChars : DigitChars[d] = c) - 1
      Step(n, i) == 10 * n + digit(k[Len(k) + 1 - i])
  IN  Fold(Step, 0, 1, Len(k))

\* int(k) for a str of decimal digits
str_to_int(k) ==
  LET digit(c) == (CHOOSE d \in DOMAIN DigitChars : DigitChars[d] = c) - 1
      Step(n, i) == 10 * n + digit(k[i])
  IN  Fold(Step, 0, 1, Len(k))

\* if the keys are str: {int(k): v for k, v in huffman_codes.items()}
int_keys(codes) ==
  IF codes.items # <<>> /\ codes.keytype = "str"
  THEN [i \in DOMAIN codes.items |-> <<str_to_int(codes.items[i][1]), codes.items[i][2]>>]
  ELSE codes.items

\* decode_table = {code: symbol for symbol, code in huffman_codes.items()}:
\* of two symbols with one codeword, the later item wins
InDecodeTable(items, code) == \E i \in DOMAIN items : items[i][2] = code
DecodeTable(items, code) ==
  LET last == CHOOSE i \in DOMAIN items :
                /\ items[i][2] = code
                /\ \A j \in DOMAIN items : items[j][2] = code => j <= i
  IN  items[last][1]

\* ''.join(format(byte, '08b') for byte in encoded_bytes)
bytes_to_bits(bytes) ==
  [k \in 1..(8 * Len(bytes)) |->
     LET byte == bytes[((k - 1) \div 8) + 1]
         j == (k - 1) % 8
     IN  (byte \div (2 ^ (7 - j))) % 2]

\* bit_string[:-padding] when padding > 0
strip_padding(bit_string, padding) ==
  IF padding > 0
  THEN SubSeq(bit_string, 1, Max2(0, Len(bit_string) - padding))
  ELSE bit_string

huffman_decode(items, bit_string) ==
  LET Step(st, i) ==
        LET current_code == Append(st.current_code, bit_string[i])
        IN  IF InDecodeTable(items, current_code)
            THEN [decoded |-> Append(st.decoded, DecodeTable(items, current_code)),
                  current_code |-> <<>>]
            ELSE [st EXCEPT !.current_code = current_code]
  IN  Fold(Step, [decoded |-> <<>>, current_code |-> <<>>], 1, Len(bit_string)).decoded

\* np.zeros(shape if isinstance(shape, (list, tuple)) else (1, 1))
zeros_of(shape) ==
  IF shape.py \in {"tuple", "list"}
  THEN Ok(shape.v, Repeat(0, Prod(shape.v)))
  ELSE Ok(<<1, 1>>, <<0>>)

\* HuffmanReconstructor.reconstruct, the two length tests: the payload has
\* no room for the length field and the padding byte, or for the table
huffman_too_short(compressed_bytes) ==
  \/ Len(compressed_bytes) < 5
  \/ Len(compressed_bytes) < 4 + u32_from_be(compressed_bytes) + 1

\* HuffmanReconstructor.reconstruct, from the padding byte to decoded_array
huffman_symbols(compressed_bytes, metadata) ==
  LET items == int_keys(Get(metadata, "huffman_codes", IntDict(<<>>)))
      tree_end == 4 + u32_from_be(compressed_bytes)
      padding == compressed_bytes[tree_end + 1]
      encoded_bytes == SubSeq(compressed_bytes, tree_end + 2, Len(compressed_bytes))
      bit_string == strip_padding(bytes_to_bits(encoded_bytes), padding)
  IN  huffman_decode(items, bit_string)

\* HuffmanReconstructor.reconstruct
HuffmanReconstruct(compressed_bytes, metadata) ==
  LET shape == Get(metadata, "original_shape", Get(metadata, "shape", None))
  IN  IF huffman_too_short(compressed_bytes)
      THEN postprocess_image(zeros_of(shape), metadata)
      ELSE finish(huffman_symbols(compressed_bytes, metadata), metadata)

(***************************************************************************)
(* compressors/image/sparse.py, reconstructors/image/sparse.py              *)
(***************************************************************************)
\* the strides that fit whole into n
StrideRangeWhole(n, step) == [k \in 1..(n \div step) |-> (k - 1) * step]

\* range(0, n, step) as a sequence
StrideRange(n, step) == [k \in 1..((n + step - 1) \div step) |-> (k - 1) * step]

\* struct.pack('>H', n): two bytes, high byte first, for n up to U16Max; a
\* larger n makes struct.pack raise struct.error
U16Max == 65535

u16_be(n) == <<(n \div 256) % 256, n % 256>>

\* SparseCompressor.compress
SparseCompress(image, sampling_rate) ==
  IF Len(image.shape) # 2
  THEN \* height, width = image.shape
       Raise("ValueError")
  ELSE LET height == image.shape[1]
           width == image.shape[2]
           rows == StrideRange(height, sampling_rate)
           cols == StrideRange(width, sampling_rate)
           num_samples == Len(rows) * Len(cols)
           pos(k) == <<rows[((k - 1) \div Len(cols)) + 1], cols[((k - 1) % Len(cols)) + 1]>>
           sampled_positions == [k \in 1..num_samples |-> pos(k)]
           sampled_pixels ==
             [k \in 1..num_samples |-> image.data[pos(k)[1] * width + pos(k)[2] + 1]]
           Step(out, k) == out \o u16_be(sampled_positions[k][1])
                               \o u16_be(sampled_positions[k][2])
                               \o <<sampled_pixels[k]>>
           compressed_bytes == u32_be(num_samples) \o Fold(Step, <<>>, 1, num_samples)
           original_size == height * width
           stats == [method |-> M_Sparse,
                     original_pixels |-> original_size,
                     sampled_pixels |-> num_samples,
                     compressed_bytes |-> Len(compressed_bytes),
                     sampling_rate |-> sampling_rate,
                     compression_ratio |-> IF num_samples > 0
                                           THEN Div(original_size, num_samples)
                                           ELSE Inf]
           metadata == [original_shape |-> Tuple(image.shape),
                        sampling_rate |-> sampling_rate,
                        num_samples |-> num_samples,
                        sampled_positions |->
                          List([k \in 1..num_samples |-> Tuple(sampled_positions[k])])]
                       @@ create_metadata("SparseCompressor", image.shape)
       IN  IF \/ \E i \in DOMAIN rows : rows[i] > U16Max
              \/ \E j \in DOMAIN cols : cols[j] > U16Max
           THEN \* struct.pack('>HHB', row, col, pixel), once a row and a
                \* column exist
                IF num_samples > 0 THEN Raise("struct.error")
                ELSE Compressed(compressed_bytes, metadata, stats)
           ELSE Compressed(compressed_bytes, metadata, stats)

\* whether SparseReconstructor.reconstruct reaches its parse loop
SparseParses(compressed_bytes, metadata) ==
  LET shape == Get(metadata, "original_shape", Get(metadata, "shape", None))
  IN  ValidShape(shape) /\ Len(compressed_bytes) >= 4

\* SparseReconstructor.reconstruct, the parse loop: known_pixels as the
\* sequence of <<<<row, col>>, pixel>> items of the dict
sparse_parse(compressed_bytes, height, width) ==
  LET num_samples == u32_from_be(compressed_bytes)
      \* the loop breaks at the first record that does not fit
      n == IF num_samples < (Len(compressed_bytes) - 4) \div 5
           THEN num_samples ELSE (Len(compressed_bytes) - 4) \div 5
      Step(known_pixels, k) ==
        LET offset == 4 + 5 * (k - 1)
            row == 256 * compressed_bytes[offset + 1] + compressed_bytes[offset + 2]
            col == 256 * compressed_bytes[offset + 3] + compressed_bytes[offset + 4]
            pixel == compressed_bytes[offset + 5]
        IN  IF row < height /\ col < width
            THEN DictSet(known_pixels, <<row, col>>, pixel)
            ELSE known_pixels
  IN  Fold(Step, <<>>, 1, n)

\* scipy.interpolate.griddata(points, values, grid, method='linear',
\* fill_value=128).astype(np.uint8): the triangulation needs three points
\* that are not on one line; the interpolated values are floating point
griddata(known_pixels, height, width) ==
  LET points == DictKeys(known_pixels)
      collinear == \/ \A p, q \in points : p[1] = q[1]
                   \/ \A p, q \in points : p[2] = q[2]
                   \/ \A p, q, r \in points :
                        (q[1] - p[1]) * (r[2] - p[2]) = (r[1] - p[1]) * (q[2] - p[2])
  IN  IF Cardinality(points) < 3 \/ collinear
      THEN Raise("QhullError")
      ELSE Ok(<<height, width>>, Repeat(FloatPixel, height * width))

\* the shape and pixels SparseReconstructor.reconstruct returns
SparseReconstruct(compressed_bytes, metadata) ==
  LET shape == Get(metadata, "original_shape", Get(metadata, "shape", None))
  IN  IF ~ValidShape(shape)
      THEN Ok(<<1, 1>>, <<0>>)
      ELSE LET height == shape.v[1]
               width == shape.v[2]
           IN  IF Len(compressed_bytes) < 4
               THEN Ok(<<height, width>>, Repeat(0, height * width))
               ELSE LET known_pixels == sparse_parse(compressed_bytes, height, width)
                        reconstructed ==
                          IF known_pixels # <<>>
                          THEN griddata(known_pixels, height, width)
                          ELSE Ok(<<height, width>>, Repeat(MidGray, height * width))
                    IN  IF reconstructed.raised
                        THEN reconstructed
                        ELSE postprocess_image(reconstructed, metadata)

\* whether SparseReconstructor.reconstruct reaches the assignment of self.stats
SparseSetsStats(compressed_bytes, metadata) ==
  LET shape == Get(metadata, "original_shape", Get(metadata, "shape", None))
  IN  /\ ValidShape(shape)
      /\ Len(compressed_bytes) >= 4
      /\ ~SparseReconstruct(compressed_bytes, metadata).raised

(***************************************************************************)
(* compressors/image/dct.py, reconstructors/image/dct.py                    *)
(*                                                                         *)
(* The coefficients are floating point: the payload is modelled by its     *)
(* length, every byte being CoeffByte, and a pixel computed by the inverse *)
(* transform is FloatPixel.  quality is held in tenths (8 stands for 0.8). *)
(***************************************************************************)
\* the quality bounded from below only
clamp_quality_floor_only(quality) ==
  IF quality < 1 THEN 1 ELSE quality

\* DCTCompressor.__init__: max(0.1, min(1.0, quality)), in tenths
clamp_quality(quality) ==
  IF quality > 10 THEN 10 ELSE IF quality < 1 THEN 1 ELSE quality

\* DCTCompressor._quantize, quant_matrix: scale = 1.0 / self.quality and
\* quant_matrix[i, j] = 1.0 + dist * scale, as fractions (quality in tenths)
quantize_matrix(block_size, quality) ==
  LET scale == Div(10, quality)
  IN  [i \in 1..block_size |->
        [j \in 1..block_size |->
           LET dist == (i - 1) + (j - 1)
           IN  Num(scale.den + dist * scale.num, scale.den)]]

\* DCTCompressor.compress
DCTCompress(image, block_size, quality) ==
  IF Len(image.shape) # 2
  THEN \* height, width = image.shape
       Raise("ValueError")
  ELSE LET height == image.shape[1]
           width == image.shape[2]
           pad_h == (block_size - (height % block_size)) % block_size
           pad_w == (block_size - (width % block_size)) % block_size
           padded_h == height + pad_h
           padded_w == width + pad_w
           \* one block per step of the two range(0, padded, block_size) loops
           num_blocks == Len(StrideRange(padded_h, block_size))
                         * Len(StrideRange(padded_w, block_size))
           compressed_bytes == Repeat(CoeffByte, 4 * num_blocks * block_size * block_size)
           stats == [method |-> M_DCT,
                     original_pixels |-> height * width,
                     compressed_bytes |-> Len(compressed_bytes),
                     block_size |-> block_size,
                     quality |-> quality,
                     num_blocks |-> num_blocks,
                     compression_ratio |-> IF Len(compressed_bytes) > 0
                                           THEN Div(height * width, Len(compressed_bytes))
                                           ELSE Inf,
                     padded_shape |-> Tuple(<<padded_h, padded_w>>)]
           metadata == [original_shape |-> Tuple(<<height, width>>),
                        padded_shape |-> Tuple(<<padded_h, padded_w>>),
                        block_size |-> block_size,
                        quality |-> quality,
                        num_blocks |-> num_blocks]
                       @@ create_metadata("DCTCompressor", image.shape)
       IN  IF (pad_h > 0 /\ width = 0) \/ (pad_w > 0 /\ height = 0)
           THEN \* np.pad(mode='edge') cannot extend an empty axis
                Raise("ValueError")
           ELSE IF num_blocks = 0
           THEN \* np.concatenate of an empty list of blocks
                Raise("ValueError")
           ELSE Compressed(compressed_bytes, metadata, stats)

\* DCTReconstructor._dequantize, quant_matrix
dequantize_matrix(quality, block_size) ==
  LET scale == Div(10, quality)
  IN  [i \in 1..block_size |->
        [j \in 1..block_size |->
           LET dist == (i - 1) + (j - 1)
           IN  Num(scale.den + dist * scale.num, scale.den)]]

\* whether DCTReconstructor.reconstruct calls _dequantize: some block within
\* num_blocks has all its coefficients in the payload
DCTDequantizes(compressed_bytes, metadata) ==
  LET shape == Get(metadata, "original_shape", Get(metadata, "shape", None))
      padded_shape == Get(metadata, "padded_shape", shape)
      block_size == Get(metadata, "block_size", DefaultBlockSize)
  IN  /\ ValidShape(shape)
      /\ Len(compressed_bytes) % 4 = 0
      /\ padded_shape.v[1] > 0 /\ padded_shape.v[2] > 0
      /\ (padded_shape.v[1] \div block_size) * (padded_shape.v[2] \div block_size) > 0
      /\ block_size * block_size <= Len(compressed_bytes) \div 4

\* DCTReconstructor.reconstruct
DCTReconstruct(compressed_bytes, metadata) ==
  LET shape == Get(metadata, "original_shape", Get(metadata, "shape", None))
      padded_shape == Get(metadata, "padded_shape", shape)
      block_size == Get(metadata, "block_size", DefaultBlockSize)
  IN  IF ~ValidShape(shape)
      THEN Ok(<<1, 1>>, <<0>>)
      ELSE IF Len(compressed_bytes) % 4 # 0
      THEN \* np.frombuffer: buffer size must be a multiple of element size
           Raise("ValueError")
      ELSE LET height == shape.v[1]
               width == shape.v[2]
               padded_h == padded_shape.v[1]
               padded_w == padded_shape.v[2]
               n_coeffs == Len(compressed_bytes) \div 4
               num_blocks == (padded_h \div block_size) * (padded_w \div block_size)
               coeffs_per_block == block_size * block_size
               cols == Len(StrideRange(padded_w, block_size))
               \* the blocks are visited row by row until block_idx reaches
               \* num_blocks; block k is written when its coefficients exist
               written(r, c) ==
                 LET k == (r \div block_size) * cols + (c \div block_size)
                 IN  k < num_blocks /\ (k + 1) * coeffs_per_block <= n_coeffs
               out_h == IF height < padded_h THEN height ELSE padded_h
               out_w == IF width < padded_w THEN width ELSE padded_w
               reconstructed ==
                 Ok(<<out_h, out_w>>,
                    [i \in 1..(out_h * out_w) |->
                       IF written((i - 1) \div out_w, (i - 1) % out_w)
                       THEN FloatPixel ELSE 0])
               rows == Len(StrideRange(padded_h, block_size))
               \* a written block that sticks out of the padded grid cannot
               \* be assigned to its slice
               partial(k) == \/ ((k \div cols) + 1) * block_size > padded_h
                             \/ ((k % cols) + 1) * block_size > padded_w
               mismatch == \E k \in 0..(rows * cols - 1) :
                             /\ k < num_blocks
                             /\ (k + 1) * coeffs_per_block <= n_coeffs
                             /\ partial(k)
           IN  IF mismatch
               THEN Raise("ValueError")
               ELSE postprocess_image(reconstructed, metadata)

\* whether DCTReconstructor.reconstruct reaches the assignment of self.stats
DCTSetsStats(compressed_bytes, metadata) ==
  LET shape == Get(metadata, "original_shape", Get(metadata, "shape", None))
  IN  ValidShape(shape) /\ ~DCTReconstruct(compressed_bytes, metadata).raised

(***************************************************************************)
(* The images and payloads the operations are given.                        *)
(***************************************************************************)
Shapes2D == {<<1, w>> : w \in 1..MaxPixels} \cup {<<2, 1>>}
Shapes3D == {<<1, 1, 3>>}
EmptyImage == [shape |-> <<0, 0>>, data |-> <<>>]

ImagesOf(sh) == {[shape |-> sh, data |-> d] : d \in [1..Prod(sh) -> Symbols]}

\* images with a run longer than RunCap: one symbol throughout, and a run
\* followed by a different symbol
LongImages ==
  {[shape |-> <<1, LongLen>>, data |-> Repeat(0, LongLen)],
   [shape |-> <<1, LongLen>>, data |-> Repeat(255, LongLen - 1) \o <<1>>]}

Images ==
  UNION {ImagesOf(sh) : sh \in Shapes2D \cup Shapes3D} \cup {EmptyImage} \cup LongImages

\* the images given to an instance that has been used before
LaterImages == {i \in Images : Len(i.data) <= MaxLaterPixels}

Lossless == {K_naive, K_rle, K_differential, K_huffman}

(***************************************************************************)
(* State.                                                                   *)
(***************************************************************************)
VARIABLES
  method,     \* the registry key the session's compressor and reconstructor
              \* were looked up under
  comp,       \* the compressor instance: calls made, stats, original_shape
              \* and, for Huffman, the reference self.huffman_codes
  objs,       \* the dict objects made so far for self.huffman_codes
  published,  \* the references handed out in returned metadata records
  recon,      \* the reconstructor instance: calls made, stats
  pc,         \* "idle", "compressed" or "reconstructed"
  image,      \* the image of the last compress call
  out,        \* what the last compress call returned or raised
  result,     \* what the last reconstruct call returned or raised
  dec,        \* a reconstruct call on an arbitrary payload and record
  cli,        \* a run of the decode command
  file,       \* the bytes of the file the encode command wrote
  met,        \* a call of the metric functions: arguments and results
  twin,       \* two new Huffman compressors, each given an image
  qualifier,  \* a call of quality_qualifier: argument and tag
  auto        \* a call of _auto_select_method: image and key

vars == <<method, comp, objs, published, recon, pc, image, out, result, dec, cli, file, met, twin, qualifier, auto>>

NoStats == <<>>
Nothing == [raised |-> FALSE, none |-> TRUE]

\* Compressor.__init__, ImageCompressor.__init__, HuffmanCompressor.__init__
NewCompressor ==
  [calls |-> 0, stats |-> NoStats, original_shape |-> None, huffman_codes |-> 1]

\* Reconstructor.__init__
NewReconstructor == [calls |-> 0, stats |-> NoStats]

Init ==
  /\ method \in DOMAIN COMPRESSORS
  /\ comp = NewCompressor
  /\ objs = <<<<>>>>
  /\ published = {}
  /\ recon = NewReconstructor
  /\ pc = "idle"
  /\ image = EmptyImage
  /\ out = Nothing
  /\ result = Nothing
  /\ dec = Nothing
  /\ cli = Nothing
  /\ file = Nothing
  /\ met = Nothing
  /\ twin = Nothing
  /\ qualifier = Nothing
  /\ auto = Nothing

(***************************************************************************)
(* compress on the session's instance.                                      *)
(***************************************************************************)
\* compressor.compress(img) of the class registered under the session's key
CompressCall(cls, img, store, ref) ==
  CASE cls = "NaiveCompressor" -> NaiveCompress(img)
    [] cls = "RLECompressor" -> RLECompress(img)
    [] cls = "DifferentialCompressor" -> DifferentialCompress(img)
    [] cls = "HuffmanCompressor" -> HuffmanCompress(img, store, ref)
    [] cls = "SparseCompressor" -> SparseCompress(img, DefaultSamplingRate)
    [] cls = "DCTCompressor" -> DCTCompress(img, DefaultBlockSize, clamp_quality(8))

\* what a compress call of a new or used instance of class cls leaves behind,
\* r being what the call returned or raised
CompressReturns(cls, img, r) ==
  /\ image' = img
  /\ out' = IF r.raised THEN r
            ELSE [raised |-> FALSE, payload |-> r.payload, metadata |-> r.metadata]
  /\ comp' = [calls |-> comp.calls + 1,
              stats |-> IF r.raised THEN comp.stats ELSE r.stats,
              \* _preprocess_image runs before anything can raise
              original_shape |-> Tuple(img.shape),
              huffman_codes |-> IF cls = "HuffmanCompressor" THEN r.ref
                                ELSE comp.huffman_codes]
  /\ objs' = IF cls = "HuffmanCompressor" THEN r.objs ELSE objs
  /\ published' = IF cls = "HuffmanCompressor"
                  THEN published \cup {r.metadata.huffman_codes}
                  ELSE published

\* A fresh instance is given any image, a used one the images of LaterImages.
Compress(img) ==
  /\ pc = "idle"
  /\ comp.calls < MaxCalls
  /\ comp.calls > 0 => img \in LaterImages
  /\ CompressReturns(COMPRESSORS[method], img,
                     CompressCall(COMPRESSORS[method], img, objs, comp.huffman_codes))
  /\ pc' = "compressed"
  /\ UNCHANGED <<method, recon, result, dec, cli, file, met, twin, qualifier, auto>>

(***************************************************************************)
(* reconstruct on the session's instance, given what compress returned.    *)
(***************************************************************************)
ReconstructorClasses ==
  {"DirectReconstructor", "RLEReconstructor", "DifferentialReconstructor",
   "HuffmanReconstructor", "SparseReconstructor", "DCTReconstructor"}

\* reconstructor.reconstruct(compressed_bytes, metadata)
ReconstructCall(rcls, compressed_bytes, metadata) ==
  CASE rcls = "DirectReconstructor" -> DirectReconstruct(compressed_bytes, metadata)
    [] rcls = "RLEReconstructor" -> RLEReconstruct(compressed_bytes, metadata)
    [] rcls = "DifferentialReconstructor" -> DifferentialReconstruct(compressed_bytes, metadata)
    [] rcls = "HuffmanReconstructor" -> HuffmanReconstruct(compressed_bytes, metadata)
    [] rcls = "SparseReconstructor" -> SparseReconstruct(compressed_bytes, metadata)
    [] rcls = "DCTReconstructor" -> DCTReconstruct(compressed_bytes, metadata)

\* the 'method' entry of the stats a reconstruct call assigns
StatsMethod(rcls) ==
  CASE rcls = "DirectReconstructor" -> M_Direct
    [] rcls = "RLEReconstructor" -> M_RLEDecode
    [] rcls = "DifferentialReconstructor" -> M_DifferentialDecode
    [] rcls = "HuffmanReconstructor" -> M_HuffmanDecode
    [] rcls = "SparseReconstructor" -> M_SparseReconstruction
    [] rcls = "DCTReconstructor" -> M_DCTReconstruction

\* whether the call reaches the assignment of self.stats
SetsStats(rcls, compressed_bytes, metadata) ==
  CASE rcls = "SparseReconstructor" -> SparseSetsStats(compressed_bytes, metadata)
    [] rcls = "DCTReconstructor" -> DCTSetsStats(compressed_bytes, metadata)
    [] OTHER -> ~ReconstructCall(rcls, compressed_bytes, metadata).raised

\* the record as the reconstructor reads it: huffman_codes is read through
\* the reference the record holds
Deref(metadata, store) ==
  IF "huffman_codes" \in DOMAIN metadata
  THEN [metadata EXCEPT !.huffman_codes = IntDict(store[metadata.huffman_codes])]
  ELSE metadata

Reconstruct ==
  /\ pc = "compressed"
  /\ ~out.raised
  /\ LET rcls == RECONSTRUCTORS[method]
         md == Deref(out.metadata, objs)
         r == ReconstructCall(rcls, out.payload, md)
     IN  /\ result' = r
         /\ recon' = [calls |-> recon.calls + 1,
                      stats |-> IF SetsStats(rcls, out.payload, md)
                                THEN [method |-> StatsMethod(rcls)]
                                ELSE recon.stats]
  /\ pc' = "reconstructed"
  /\ UNCHANGED <<method, comp, objs, published, image, out, dec, cli, file, met, twin, qualifier, auto>>

\* The caller is done with the call: it drops the image, what compress
\* returned and the reconstructed array.  The instances and the dict objects
\* stay as they are.
Release ==
  /\ pc = "reconstructed" \/ (pc = "compressed" /\ out.raised)
  /\ pc' = "idle"
  /\ image' = EmptyImage
  /\ out' = Nothing
  /\ result' = Nothing
  /\ UNCHANGED <<method, comp, objs, published, recon, dec, cli, file, met, twin, qualifier, auto>>

Next == (\E img \in Images : Compress(img)) \/ Reconstruct \/ Release

Spec == Init /\ [][Next]_vars


(***************************************************************************)
(* Properties of the compress / reconstruct session.                        *)
(***************************************************************************)
\* the reconstructed array has the shape and the symbols of the image
RoundTrip ==
  /\ ~result.raised
  /\ result.shape = image.shape
  /\ result.data = image.data

\* the first compress call of the instance and the first reconstruct call of
\* the reconstructor have just been made
FreshPair == pc = "reconstructed" /\ comp.calls = 1 /\ recon.calls = 1

\* the code table of the record the last compress call returned
ReturnedTable == objs[out.metadata.huffman_codes]

IsPrefix(a, b) == Len(a) <= Len(b) /\ SubSeq(b, 1, Len(a)) = a

\* C1: for each lossless method and every image of at least one symbol (2-D,
\* or 3-D with three channels, runs longer than 255 included), compressing
\* with a fresh compressor and reconstructing with a fresh reconstructor
\* gives back an array of the image's shape, equal symbol for symbol.
C1_FreshRoundTrip ==
  (FreshPair /\ method \in Lossless /\ image.data # <<>>) => RoundTrip

\* a run longer than 255 went through RLE and came back
C1_Witness ==
  /\ FreshPair
  /\ method = K_rle
  /\ image.shape = <<1, LongLen>>
  /\ image.data[LongLen] = 1
  /\ RoundTrip

\* a 3-D image went through Huffman and came back
C1_Witness3D ==
  /\ FreshPair
  /\ method = K_huffman
  /\ image.shape = <<1, 1, 3>>
  /\ Cardinality(Range(image.data)) = 3
  /\ RoundTrip

\* C2: for each lossless method and any sequence of images, compressing them
\* one after another on one compressor instance and reconstructing each
\* result with one reconstructor instance gives back every image.
C2_ReusedRoundTrip ==
  (pc = "reconstructed" /\ method \in Lossless) => RoundTrip

\* C3: the code table of each compress call of a HuffmanCompressor holds a
\* codeword for exactly the symbols of that call's image and equals the
\* table a fresh instance builds for the image.
C3_TableScopedToCall ==
  (pc = "compressed" /\ method = K_huffman) =>
     /\ DictKeys(ReturnedTable) = Range(image.data)
     /\ ReturnedTable = codes_after(<<>>, image.data)

\* C4: a later compress call on the instance leaves every field of every
\* record returned earlier as it was; the only field a record shares with
\* the instance is the dict huffman_codes refers to.
C4_RecordsNeverMutated ==
  [][\A id \in published : objs'[id] = objs[id]]_vars

\* C5: the table a fresh HuffmanCompressor builds for a non-empty image is
\* prefix-free with non-empty codewords, and an image of one distinct symbol
\* gets the single codeword "0".
C5_PrefixFree ==
  (pc = "compressed" /\ method = K_huffman /\ comp.calls = 1 /\ image.data # <<>>) =>
     LET t == ReturnedTable
     IN  /\ DictKeys(t) = Range(image.data)
         /\ \A i \in DOMAIN t : t[i][2] # <<>>
         /\ \A i, j \in DOMAIN t : i # j => ~IsPrefix(t[i][2], t[j][2])
         /\ Cardinality(Range(image.data)) = 1 => t = <<<<image.data[1], <<0>>>>>>

\* a fresh instance built a table of three codewords of two lengths
C5_Witness ==
  /\ pc = "compressed" /\ method = K_huffman /\ comp.calls = 1
  /\ Len(ReturnedTable) = 3
  /\ \E i, j \in DOMAIN ReturnedTable : Len(ReturnedTable[i][2]) < Len(ReturnedTable[j][2])

C10_EmptyImage ==
  /\ (pc = "compressed" /\ image.data = <<>>) =>
        /\ ~out.raised
        /\ method = K_huffman => (ReturnedTable = <<>> /\ out.payload = <<>>)
  /\ (pc = "reconstructed" /\ image.data = <<>>) =>
        (~result.raised /\ result.data = <<>>)

(***************************************************************************)
(* reconstruct on an arbitrary payload and metadata record.                 *)
(***************************************************************************)
\* the byte values payloads are made of
Bytes == {0, 1, 255}

\* the payloads of at most MaxPayload bytes
Payloads == UNION {[1..n -> Bytes] : n \in 0..MaxPayload}

\* the same payloads behind a four-byte big-endian length or count field
HeaderPayloads == {u32_be(t) \o p : t \in {0, 1}, p \in Payloads}

\* the payloads handed to the reconstructor class rcls
PayloadsFor(rcls) ==
  IF rcls \in {"HuffmanReconstructor", "SparseReconstructor"}
  THEN Payloads \cup HeaderPayloads
  ELSE Payloads

\* the shapes a record declares, as compress returns them (tuple) and as
\* json.loads returns them (list)
DeclaredDims == {<<1, 2>>, <<2, 2>>, <<1, 1, 3>>}
DeclaredShapes == {Tuple(d) : d \in DeclaredDims} \cup {List(d) : d \in DeclaredDims}

\* the code tables a record carries for the Huffman reconstructor
CodeTables == {IntDict(<<>>), IntDict(<<<<0, <<0>>>>, <<1, <<1>>>>>>)}

\* the records handed to the reconstructor registered under key
RecordsFor(key) ==
  LET base(sh) == {[shape |-> sh, method |-> key],
                   [shape |-> sh, original_shape |-> sh, method |-> key]}
      plain == UNION {base(sh) : sh \in DeclaredShapes}
  IN  IF key = K_huffman
      THEN plain \cup {md @@ [huffman_codes |-> t] : md \in plain, t \in CodeTables}
      ELSE plain

\* reconstructor.reconstruct(compressed_bytes, metadata) on a new instance of
\* the class registered under the session's key
Decode(compressed_bytes, metadata) ==
  /\ dec = Nothing
  /\ recon.calls = 0
  /\ pc = "idle"
  /\ LET rcls == RECONSTRUCTORS[method]
         r == ReconstructCall(rcls, compressed_bytes, metadata)
     IN  /\ dec' = [rcls |-> rcls, payload |-> compressed_bytes,
                    metadata |-> metadata, result |-> r]
         /\ recon' = [calls |-> recon.calls + 1,
                      stats |-> IF SetsStats(rcls, compressed_bytes, metadata)
                                THEN [method |-> StatsMethod(rcls)]
                                ELSE recon.stats]
  /\ UNCHANGED <<method, comp, objs, published, pc, image, out, result, cli, file, met, twin, qualifier, auto>>

NextDecode ==
  /\ dec = Nothing
  /\ \E md \in RecordsFor(method) :
       \E p \in PayloadsFor(RECONSTRUCTORS[method]) : Decode(p, md)

SpecDecode == Init /\ [][NextDecode]_vars

(***************************************************************************)
(* Properties of reconstruct on arbitrary payloads.                         *)
(***************************************************************************)
LosslessDecoders ==
  {"DirectReconstructor", "RLEReconstructor", "DifferentialReconstructor",
   "HuffmanReconstructor"}

\* the shape the record of the decode call declares
Declared ==
  Get(dec.metadata, "original_shape", Get(dec.metadata, "shape", None)).v

\* whether the decode call got as far as a sequence of decoded symbols
HasDecoded ==
  CASE dec.rcls = "DifferentialReconstructor" -> Len(dec.payload) % 2 = 0
    [] dec.rcls = "HuffmanReconstructor" -> ~huffman_too_short(dec.payload)
    [] OTHER -> TRUE

\* the symbols the decode call decoded before fitting them to the shape
Decoded ==
  CASE dec.rcls = "DirectReconstructor" -> dec.payload
    [] dec.rcls = "RLEReconstructor" -> rle_decode(dec.payload)
    [] dec.rcls = "DifferentialReconstructor" ->
         cumsum_uint8(int16_frombuffer(dec.payload))
    [] dec.rcls = "HuffmanReconstructor" -> huffman_symbols(dec.payload, dec.metadata)

\* C8: for the Direct, RLE, Differential and Huffman decoders, any payload
\* (one that decodes to zero symbols included) and any declared shape of 2 or
\* 3 dimensions: when the number of decoded symbols differs from the product
\* of the shape, the decoder does not raise and returns an array of the
\* declared shape, the first symbols when there are too many, the decoded
\* symbols followed by repeats of the last one when there are too few.
C8_SizeMismatchNeverRaises ==
  (/\ dec # Nothing
   /\ dec.rcls \in LosslessDecoders
   /\ HasDecoded
   /\ Len(Decoded) # Prod(Declared)) =>
     /\ ~dec.result.raised
     /\ dec.result.shape = Declared
     /\ Len(Decoded) > Prod(Declared) =>
          dec.result.data = SubSeq(Decoded, 1, Prod(Declared))
     /\ Len(Decoded) < Prod(Declared) =>
          dec.result.data =
            Decoded \o Repeat(Decoded[Len(Decoded)], Prod(Declared) - Len(Decoded))

\* the payload of the decode call is too short for its header fields
TooShort ==
  \/ dec.rcls = "HuffmanReconstructor" /\ huffman_too_short(dec.payload)
  \/ dec.rcls = "SparseReconstructor" /\ Len(dec.payload) < 4

\* C9: when a Huffman payload has fewer than 5 bytes or fewer than
\* 4 + table_length + 1 bytes, or a Sparse payload fewer than 4 bytes, the
\* decoder does not raise and returns an all-zero array of the shape the
\* record declares, 2-D or 3-D.
C9_TooShortGivesZeros ==
  (dec # Nothing /\ TooShort) =>
     /\ ~dec.result.raised
     /\ dec.result.shape = Declared
     /\ dec.result.data = Repeat(0, Prod(Declared))

(***************************************************************************)
(* cli.py, the decode command.  The file has been read: metadata is the    *)
(* record json.loads returned (shapes are lists, the keys of huffman_codes *)
(* are str), compressed_bytes the rest of the file.                         *)
(***************************************************************************)
NoClass == "none"

\* an operator that falls back to the direct decoder for an unknown method
lookup_reconstructor_fallback(method_field) ==
  IF lower(method_field) \in DOMAIN RECONSTRUCTORS
  THEN RECONSTRUCTORS[lower(method_field)]
  ELSE "DirectReconstructor"

\* RECONSTRUCTORS.get(method.lower())
lookup_reconstructor(method_field) ==
  IF lower(method_field) \in DOMAIN RECONSTRUCTORS
  THEN RECONSTRUCTORS[lower(method_field)]
  ELSE NoClass

\* array.squeeze(): the dimensions of length 1 are dropped
Squeeze(dims) == SelectSeq(dims, LAMBDA n : n # 1)

\* image_utils.save_image: whether the file is written; Image.fromarray
\* takes an array of one, two or three dimensions
save_image(array) ==
  IF Len(array.shape) = 2 THEN TRUE
  ELSE IF Len(array.shape) = 3 /\ array.shape[3] = 3 THEN TRUE
  ELSE Len(Squeeze(array.shape)) \in {1, 2}

\* the method strings found in the records given to the command: the
\* registry keys, names in other letter case, and names of no codec
MethodStrings ==
  DOMAIN RECONSTRUCTORS
    \cup {M_Naive, M_RLE, M_Huffman, M_Direct, M_DCT}
    \cup {S_Unknown, S_test, M_HuffmanDecode, <<>>}

\* the str-keyed code table json.loads returns
JsonCodeTable == StrDict(<<<<<<"0">>, <<0>>>>, <<<<"1">>, <<1>>>>>>)

\* the records json.loads returns
CliRecords ==
  LET shaped == {[shape |-> List(d), original_shape |-> List(d)] : d \in DeclaredDims}
      named == {md @@ [method |-> m] : md \in shaped, m \in MethodStrings}
  IN  shaped \cup named
        \cup {md @@ [method |-> m, huffman_codes |-> JsonCodeTable] :
                md \in shaped, m \in {K_huffman, M_Huffman}}

\* decode(input_path, output_path, verbose), from the lookup of the method
CliDecode(compressed_bytes, metadata) ==
  /\ cli = Nothing
  /\ LET method_field == Get(metadata, "method", S_Unknown)
         reconstructor_class == lookup_reconstructor(method_field)
         r == ReconstructCall(reconstructor_class, compressed_bytes, metadata)
         outcome == IF reconstructor_class = NoClass THEN "unknown_method"
                    ELSE IF r.raised THEN "decode_error"
                    ELSE IF ~save_image(r) THEN "decode_error"
                    ELSE "decoded"
     IN  cli' = [metadata |-> metadata,
                 payload |-> compressed_bytes,
                 outcome |-> outcome,
                 ran |-> reconstructor_class,
                 reconstructed |-> IF reconstructor_class = NoClass THEN Nothing ELSE r,
                 written |-> outcome = "decoded",
                 exit_code |-> IF outcome = "decoded" THEN 0 ELSE 1]
  /\ UNCHANGED <<method, comp, objs, published, recon, pc, image, out, result, dec, file, met, twin, qualifier, auto>>

NextCli ==
  /\ cli = Nothing
  /\ \E md \in CliRecords : \E p \in Payloads \cup HeaderPayloads : CliDecode(p, md)

\* the command makes its own reconstructor from the record it reads: the
\* session's key plays no part, and one value of it is enough
InitCli == Init /\ method = K_naive

SpecCli == InitCli /\ [][NextCli]_vars

\* the method the command read from the record
CliMethod == Get(cli.metadata, "method", S_Unknown)

\* the run ended in the unknown-method error: no reconstructor, no output
UnknownMethodError ==
  /\ cli.outcome = "unknown_method"
  /\ cli.ran = NoClass
  /\ ~cli.written
  /\ cli.exit_code = 1

\* C7 as stated: a record whose method is not a key of the reconstructor
\* registry, or that has no method field, ends the decode command in the
\* unknown-method error: no reconstructor is run, no output is written and
\* no other decoder is used instead.
C7_NotAKeyIsRejected ==
  (/\ cli # Nothing
   /\ \/ "method" \notin DOMAIN cli.metadata
      \/ cli.metadata.method \notin DOMAIN RECONSTRUCTORS) => UnknownMethodError

\* C7, amended: the command looks the method up in lower case.  A record
\* whose method, lower-cased, is not a key of the reconstructor registry, or
\* that has no method field, ends the command in the unknown-method error
\* with no reconstructor run and no output written; a method that is a key
\* up to letter case is decoded by the reconstructor registered under that
\* key and by no other.
C7_LowerCasedLookup ==
  cli # Nothing =>
    IF lower(CliMethod) \in DOMAIN RECONSTRUCTORS
    THEN cli.ran = RECONSTRUCTORS[lower(CliMethod)]
    ELSE UnknownMethodError

\* a record without a method field was rejected
C7_Witness ==
  /\ cli # Nothing
  /\ "method" \notin DOMAIN cli.metadata
  /\ UnknownMethodError

(***************************************************************************)
(* reconstruct given a record that carries only shape and method.          *)
(***************************************************************************)
\* the record a caller rebuilds from the image's dimensions and the method
BareRecord(metadata) == [shape |-> metadata.shape, method |-> metadata.method]

ReconstructBare ==
  /\ pc = "compressed"
  /\ ~out.raised
  /\ LET rcls == RECONSTRUCTORS[method]
         md == BareRecord(out.metadata)
         r == ReconstructCall(rcls, out.payload, md)
     IN  /\ result' = r
         /\ recon' = [calls |-> recon.calls + 1,
                      stats |-> IF SetsStats(rcls, out.payload, md)
                                THEN [method |-> StatsMethod(rcls)]
                                ELSE recon.stats]
  /\ pc' = "bare"
  /\ UNCHANGED <<method, comp, objs, published, image, out, dec, cli, file, met, twin, qualifier, auto>>

NextBare == (\E img \in Images : Compress(img)) \/ ReconstructBare

SpecBare == Init /\ [][NextBare]_vars

\* C11: for any non-empty image, reconstructing a Huffman payload with a
\* record that carries only shape and method (no huffman_codes) returns the
\* image, the table being taken from the payload.
C11_SelfDecodable ==
  (pc = "bare" /\ method = K_huffman /\ image.data # <<>>) => RoundTrip

\* C12: each of the six encoders accepts a 3-channel image of shape
\* (H, W, 3): compress returns, without raising, a payload and a record
\* whose shape is (H, W, 3).
C12_ThreeChannelAccepted ==
  (pc = "compressed" /\ Len(image.shape) = 3 /\ image.shape[3] = 3) =>
     /\ ~out.raised
     /\ out.metadata.shape = Tuple(image.shape)

(***************************************************************************)
(* cli.py, the encode command writes the file                              *)
(*   [metadata_length: 4 bytes big-endian][json.dumps(metadata)][payload]  *)
(* and the decode command reads it back.  A JSON value is a record tagged  *)
(* with its kind; a str is its sequence of characters, an object its       *)
(* sequence of <<key, value>> members in insertion order.                  *)
(***************************************************************************)
JInt(n) == [t |-> "int", v |-> n]
JStr(s) == [t |-> "str", v |-> s]
JList(items) == [t |-> "list", v |-> items]
JDict(members) == [t |-> "dict", v |-> members]

\* ord(c) and chr(b) for the characters of the records: letters, digits, '_'
Ord(c) ==
  IF \E k \in DOMAIN LowerCase : LowerCase[k] = c
  THEN 96 + (CHOOSE k \in DOMAIN LowerCase : LowerCase[k] = c)
  ELSE IF \E k \in DOMAIN UpperCase : UpperCase[k] = c
  THEN 64 + (CHOOSE k \in DOMAIN UpperCase : UpperCase[k] = c)
  ELSE IF \E k \in DOMAIN DigitChars : DigitChars[k] = c
  THEN 47 + (CHOOSE k \in DOMAIN DigitChars : DigitChars[k] = c)
  ELSE 95

Chr(b) ==
  IF b \in 97..122 THEN LowerCase[b - 96]
  ELSE IF b \in 65..90 THEN UpperCase[b - 64]
  ELSE IF b \in 48..57 THEN DigitChars[b - 47]
  ELSE "_"

\* the keys of the records the five encoders of the command return, in the
\* order _create_metadata and metadata.update insert them
FieldOrder ==
  <<"shape", "dtype", "method", "original_shape", "rle_pairs", "max_diff",
    "bits_per_symbol", "huffman_codes", "num_symbols", "sampling_rate",
    "num_samples", "sampled_positions">>

KeyText ==
  [shape |-> <<"s", "h", "a", "p", "e">>,
   dtype |-> <<"d", "t", "y", "p", "e">>,
   method |-> <<"m", "e", "t", "h", "o", "d">>,
   original_shape |-> <<"o", "r", "i", "g", "i", "n", "a", "l", "_", "s", "h", "a", "p", "e">>,
   rle_pairs |-> <<"r", "l", "e", "_", "p", "a", "i", "r", "s">>,
   max_diff |-> <<"m", "a", "x", "_", "d", "i", "f", "f">>,
   bits_per_symbol |-> <<"b", "i", "t", "s", "_", "p", "e", "r", "_", "s", "y", "m", "b", "o", "l">>,
   huffman_codes |-> <<"h", "u", "f", "f", "m", "a", "n", "_", "c", "o", "d", "e", "s">>,
   num_symbols |-> <<"n", "u", "m", "_", "s", "y", "m", "b", "o", "l", "s">>,
   sampling_rate |-> <<"s", "a", "m", "p", "l", "i", "n", "g", "_", "r", "a", "t", "e">>,
   num_samples |-> <<"n", "u", "m", "_", "s", "a", "m", "p", "l", "e", "s">>,
   sampled_positions |-> <<"s", "a", "m", "p", "l", "e", "d", "_", "p", "o", "s", "i", "t", "i", "o", "n", "s">>]

\* the members of a metadata record as JSON values: a tuple or a list is an
\* array; an int key of huffman_codes is written as str(key)
JsonOfField(key, value) ==
  CASE key \in {"shape", "original_shape"} ->
         JList([i \in DOMAIN value.v |-> JInt(value.v[i])])
    [] key \in {"dtype", "method"} -> JStr(value)
    [] key = "huffman_codes" ->
         JDict([i \in DOMAIN value.items |->
                  <<IF value.keytype = "int"
                    THEN [j \in DOMAIN int_to_str(value.items[i][1]) |->
                            Chr(int_to_str(value.items[i][1])[j])]
                    ELSE value.items[i][1],
                    JStr([j \in DOMAIN value.items[i][2] |->
                            DigitChars[value.items[i][2][j] + 1]])>>])
    [] key = "sampled_positions" ->
         JList([i \in DOMAIN value.v |->
                  JList([j \in DOMAIN value.v[i].v |-> JInt(value.v[i].v[j])])])
    [] OTHER -> JInt(value)

JsonOfRecord(metadata) ==
  LET keys == SelectSeq(FieldOrder, LAMBDA k : k \in DOMAIN metadata)
  IN  JDict([i \in DOMAIN keys |-> <<KeyText[keys[i]], JsonOfField(keys[i], metadata[keys[i]])>>])

RECURSIVE json_dumps(_)
\* json.dumps(value).encode('utf-8') with the default separators ', ' and ': '
json_dumps(value) ==
  LET quoted(s) == <<34>> \o [j \in DOMAIN s |-> Ord(s[j])] \o <<34>>
      sep(i) == IF i > 1 THEN <<44, 32>> ELSE <<>>
      ListStep(acc, i) == acc \o sep(i) \o json_dumps(value.v[i])
      DictStep(acc, i) ==
        acc \o sep(i) \o quoted(value.v[i][1]) \o <<58, 32>> \o json_dumps(value.v[i][2])
  IN  CASE value.t = "int" -> int_to_str(value.v)
        [] value.t = "str" -> quoted(value.v)
        [] value.t = "list" -> <<91>> \o Fold(ListStep, <<>>, 1, Len(value.v)) \o <<93>>
        [] value.t = "dict" -> <<123>> \o Fold(DictStep, <<>>, 1, Len(value.v)) \o <<125>>

\* the first position from p on that holds no white space
skip_ws(s, p) ==
  LET rest == {i \in p..Len(s) : s[i] \notin {9, 10, 13, 32}}
  IN  IF rest = {} THEN Len(s) + 1 ELSE CHOOSE i \in rest : \A j \in rest : i <= j

\* a string starting at the quote at p: [v, p] with p the position after it
scan_string(s, p) ==
  LET quotes == {i \in (p + 1)..Len(s) : s[i] = 34}
      close == CHOOSE i \in quotes : \A j \in quotes : i <= j
  IN  [v |-> JStr([j \in 1..(close - p - 1) |-> Chr(s[p + j])]), p |-> close + 1]

\* a non-negative integer starting at p
scan_int(s, p) ==
  LET stops == {i \in p..(Len(s) + 1) : i = Len(s) + 1 \/ s[i] \notin 48..57}
      stop == CHOOSE i \in stops : \A j \in stops : i <= j
      Step(n, i) == 10 * n + (s[i] - 48)
  IN  [v |-> JInt(Fold(Step, 0, p, stop - 1)), p |-> stop]

RECURSIVE json_parse_value(_, _)
RECURSIVE json_parse_items(_, _, _)
RECURSIVE json_parse_members(_, _, _)
\* json.loads, one value starting at or after p0
json_parse_value(s, p0) ==
  LET p == skip_ws(s, p0)
  IN  CASE s[p] = 123 ->
             LET q == skip_ws(s, p + 1)
             IN  IF s[q] = 125 THEN [v |-> JDict(<<>>), p |-> q + 1]
                 ELSE json_parse_members(s, q, <<>>)
        [] s[p] = 91 ->
             LET q == skip_ws(s, p + 1)
             IN  IF s[q] = 93 THEN [v |-> JList(<<>>), p |-> q + 1]
                 ELSE json_parse_items(s, q, <<>>)
        [] s[p] = 34 -> scan_string(s, p)
        [] OTHER -> scan_int(s, p)

\* the elements of an array, up to the closing bracket
json_parse_items(s, p, acc) ==
  LET val == json_parse_value(s, p)
      d == skip_ws(s, val.p)
      items == Append(acc, val.v)
  IN  IF s[d] = 44 THEN json_parse_items(s, d + 1, items)
      ELSE [v |-> JList(items), p |-> d + 1]

\* the members of an object, up to the closing brace; a repeated key keeps
\* its place and takes the later value
json_parse_members(s, p, acc) ==
  LET key == scan_string(s, skip_ws(s, p))
      colon == skip_ws(s, key.p)
      val == json_parse_value(s, colon + 1)
      d == skip_ws(s, val.p)
      members == DictSet(acc, key.v.v, val.v)
  IN  IF s[d] = 44 THEN json_parse_members(s, d + 1, members)
      ELSE [v |-> JDict(members), p |-> d + 1]

json_loads(s) == json_parse_value(s, 1).v

RECURSIVE PyOfJson(_)
\* the Python value of a JSON value: an array is a list, an object a dict
\* with str keys
PyOfJson(value) ==
  CASE value.t = "list" -> List([i \in DOMAIN value.v |-> PyOfJson(value.v[i])])
    [] value.t = "dict" ->
         StrDict([i \in DOMAIN value.v |-> <<value.v[i][1], PyOfJson(value.v[i][2])>>])
    [] OTHER -> value.v

\* the record the decode command holds after json.loads; a codeword, a str
\* of '0' and '1', is kept as its sequence of bits
RecordOfJson(obj) ==
  LET present == {k \in DOMAIN KeyText : \E i \in DOMAIN obj.v : obj.v[i][1] = KeyText[k]}
      py(k) == PyOfJson(DictGet(obj.v, KeyText[k]))
      bits(codes) ==
        StrDict([i \in DOMAIN codes.items |->
                   <<codes.items[i][1],
                     [j \in DOMAIN codes.items[i][2] |-> str_to_int(<<codes.items[i][2][j]>>)]>>])
  IN  [k \in present |-> IF k = "huffman_codes" THEN bits(py(k)) ELSE py(k)]

\* _encode_image: the bytes written to the output file
file_bytes(metadata, compressed_bytes) ==
  LET metadata_bytes == json_dumps(JsonOfRecord(metadata))
  IN  u32_be(Len(metadata_bytes)) \o metadata_bytes \o compressed_bytes

\* decode: the record and the payload read from the file
read_file(bytes) ==
  LET metadata_length == u32_from_be(SubSeq(bytes, 1, 4))
      metadata_bytes == SubSeq(bytes, 5, 4 + metadata_length)
  IN  [metadata |-> RecordOfJson(json_loads(metadata_bytes)),
       compressed_bytes |-> SubSeq(bytes, 5 + metadata_length, Len(bytes))]

\* the methods the encode command offers
EncodeChoices == {K_naive, K_rle, K_differential, K_huffman, K_sparse}

\* the encode command has compressed the image and writes the file
WriteFile ==
  /\ pc = "compressed"
  /\ ~out.raised
  /\ file = Nothing
  /\ file' = file_bytes(Deref(out.metadata, objs), out.payload)
  /\ pc' = "written"
  /\ UNCHANGED <<method, comp, objs, published, recon, image, out, result, dec, cli, met, twin, qualifier, auto>>

\* the decode command reads the file and decodes what it read
DecodeFile ==
  /\ pc = "written"
  /\ LET read == read_file(file)
     IN  CliDecode(read.compressed_bytes, read.metadata)

NextFile == (\E img \in Images : Compress(img)) \/ WriteFile \/ DecodeFile

InitFile == Init /\ method \in EncodeChoices

SpecFile == InitFile /\ [][NextFile]_vars

\* the record after JSON conversion: tuples are lists, the int keys of the
\* code table decimal strings
JsonView(metadata) ==
  [k \in DOMAIN metadata |->
     CASE k \in {"shape", "original_shape"} -> List(metadata[k].v)
       [] k = "sampled_positions" ->
            List([i \in DOMAIN metadata[k].v |-> List(metadata[k].v[i].v)])
       [] k = "huffman_codes" ->
            StrDict([i \in DOMAIN metadata[k].items |->
                       <<[j \in DOMAIN int_to_str(metadata[k].items[i][1]) |->
                            DigitChars[int_to_str(metadata[k].items[i][1])[j] - 47]],
                         metadata[k].items[i][2]>>])
       [] OTHER -> metadata[k]]

\* C13: writing a record and a payload as [4-byte big-endian length][JSON
\* record][payload] and reading the file back as the decode command does
\* gives the same payload and the record up to JSON conversion; for each
\* lossless method, reconstructing from what was read gives back the image.
C13_FileRoundTrip ==
  (file # Nothing /\ cli # Nothing) =>
     /\ cli.payload = out.payload
     /\ cli.metadata = JsonView(Deref(out.metadata, objs))
     /\ method \in Lossless =>
          /\ ~cli.reconstructed.raised
          /\ cli.reconstructed.shape = image.shape
          /\ cli.reconstructed.data = image.data

\* a Huffman table with the key 255 went through the file and the image
\* came back
C13_Witness ==
  /\ file # Nothing /\ cli # Nothing
  /\ method = K_huffman
  /\ 255 \in Range(image.data) /\ Cardinality(Range(image.data)) = 3
  /\ cli.metadata.huffman_codes.keytype = "str"
  /\ cli.reconstructed.data = image.data

(***************************************************************************)
(* The statistics of the Huffman encoder.                                  *)
(***************************************************************************)
\* the first call of a HuffmanCompressor has returned, for an image of at
\* least two distinct symbols
FreshNonDegenerate ==
  /\ pc = "compressed" /\ method = K_huffman /\ comp.calls = 1
  /\ Cardinality(Range(image.data)) >= 2

MaxSize == 2

\* calculate_mse: np.mean of the squared differences; the mean of no
\* element at all is nan
calculate_mse(original, reconstructed) ==
  LET Step(acc, i) ==
        acc + (original.data[i] - reconstructed.data[i])
                * (original.data[i] - reconstructed.data[i])
  IN  IF Len(original.data) = 0 THEN NaN
      ELSE Num(Fold(Step, 0, 1, Len(original.data)), Len(original.data))

\* calculate_psnr with max_value 255: 10 * log10(255^2 / mse) in thousandths
\* of a decibel; nan == 0 is false and the logarithm of nan is nan
calculate_psnr(original, reconstructed) ==
  LET mse == calculate_mse(original, reconstructed)
      log_ratio == log2_fixed(255 * 255 * mse.den) - log2_fixed(mse.num)
  IN  IF mse.kind = "nan" THEN NaN
      ELSE IF mse.num = 0 THEN Inf
      ELSE Num(((log_ratio \div 64) * 3010) \div 1024, 1000)

calculate_compression_ratio(original_size, compressed_size) ==
  IF compressed_size = 0 THEN Inf ELSE Div(original_size, compressed_size)

calculate_space_saved(original_size, compressed_size) ==
  IF original_size = 0 THEN Num(0, 1)
  ELSE Div((original_size - compressed_size) * 100, original_size)

\* the quotient without the test on the number of pixels
calculate_bits_per_pixel_unguarded(total_bits, num_pixels) ==
  Div(total_bits, num_pixels)

calculate_bits_per_pixel(total_bits, num_pixels) ==
  IF num_pixels = 0 THEN Num(0, 1) ELSE Div(total_bits, num_pixels)

\* comprehensive_quality_analysis, the entries computed from the arguments
\* (ssim, which is scipy's work, is left out); theoretical_min_bits is in
\* units of 2^-16 bit and loses its last ten binary places in efficiency
comprehensive_quality_analysis(original, reconstructed, original_size, compressed_size) ==
  LET original_entropy == calculate_entropy(original.data)
      reconstructed_entropy == calculate_entropy(reconstructed.data)
      num_pixels == Len(original.data)
      theoretical_min_bits == num_pixels * original_entropy
  IN  [original_entropy |-> original_entropy,
       reconstructed_entropy |-> reconstructed_entropy,
       entropy_reduction |->
         IF original_entropy > 0
         THEN Div((original_entropy - reconstructed_entropy) * 100, original_entropy)
         ELSE Num(0, 1),
       psnr_db |-> calculate_psnr(original, reconstructed),
       mse |-> calculate_mse(original, reconstructed),
       compression_ratio |-> calculate_compression_ratio(original_size, compressed_size),
       space_saved_percent |-> calculate_space_saved(original_size, compressed_size),
       bits_per_pixel |-> calculate_bits_per_pixel(compressed_size * 8, num_pixels),
       theoretical_min_bits |-> theoretical_min_bits,
       efficiency_percent |->
         IF compressed_size > 0
         THEN Div((theoretical_min_bits \div 1024) * 100, compressed_size * 8 * 64)
         ELSE Num(0, 1),
       num_pixels |-> num_pixels]

\* the images the metrics are applied to: the small black and white images,
\* the images with
\* a long run, and images in which all 256 values occur equally often
FullRangeImages ==
  {[shape |-> <<16, 16>>, data |-> [i \in 1..256 |-> i - 1]],
   [shape |-> <<2, 256>>, data |-> [i \in 1..512 |-> (i - 1) % 256]]}

MetricImages ==
  {i \in LaterImages : Range(i.data) \subseteq {0, 255}} \cup LongImages \cup FullRangeImages

\* the metric functions applied to an image, an image of the same shape
\* standing for its reconstruction, and two sizes in bytes
Measure(original, reconstructed, original_size, compressed_size) ==
  /\ met = Nothing
  /\ met' = [original |-> original,
             reconstructed |-> reconstructed,
             original_size |-> original_size,
             compressed_size |-> compressed_size,
             entropy |-> calculate_entropy(original.data),
             mse |-> calculate_mse(original, reconstructed),
             mse_same |-> calculate_mse(original, original),
             psnr |-> calculate_psnr(original, reconstructed),
             compression_ratio |->
               calculate_compression_ratio(original_size, compressed_size),
             space_saved |-> calculate_space_saved(original_size, compressed_size),
             bits_per_pixel |->
               calculate_bits_per_pixel(compressed_size * 8, Len(original.data)),
             analysis |->
               IF Len(original.data) > 0
               THEN comprehensive_quality_analysis(original, reconstructed,
                                                   original_size, compressed_size)
               ELSE Nothing]
  /\ UNCHANGED <<method, comp, objs, published, recon, pc, image, out, result, dec, cli, file, twin, qualifier, auto>>

NextMetrics ==
  /\ met = Nothing
  /\ \E a \in MetricImages : \E b \in {i \in MetricImages : i.shape = a.shape} :
       \E o, c \in 0..MaxSize : Measure(a, b, o, c)

\* the metric functions read no state of the session: one key is enough
InitMetrics == Init /\ method = K_naive

SpecMetrics == InitMetrics /\ [][NextMetrics]_vars

\* C15: for every image of 8-bit symbols calculate_entropy is in [0, 8]; it
\* is 0 when all symbols are equal and 8 when all 256 values occur equally
\* often.
C15_EntropyBounds ==
  met # Nothing =>
    LET data == met.original.data
    IN  /\ met.entropy >= 0
        /\ met.entropy <= 8 * Log2Unit
        /\ Cardinality(Range(data)) <= 1 => met.entropy = 0
        /\ (/\ Range(data) = 0..255
            /\ \A v \in 0..255 : Count(data, v) = Count(data, 0)) =>
             met.entropy = 8 * Log2Unit

\* the entropy of an image in which each of the 256 values occurs twice
C15_Witness ==
  /\ met # Nothing
  /\ Len(met.original.data) = 512
  /\ Range(met.original.data) = 0..255
  /\ met.entropy = 8 * Log2Unit

\* C16: calculate_psnr(a, b) is +infinity exactly when the mean squared
\* difference of a and b is 0, which is the case whenever a and b are the
\* same image, and finite otherwise; calculate_mse(a, a) is 0 for every
\* image a.
C16_PsnrInfiniteIffSame ==
  met # Nothing =>
    /\ met.psnr.kind = "inf" <=> IsZero(met.mse)
    /\ met.original = met.reconstructed => met.psnr.kind = "inf"
    /\ met.psnr.kind # "inf" => IsFinite(met.psnr)
    /\ IsZero(met.mse_same)

\* C16 on the images of at least one symbol
C16_NonEmpty ==
  (met # Nothing /\ met.original.data # <<>>) =>
    /\ met.psnr.kind = "inf" <=> IsZero(met.mse)
    /\ met.original = met.reconstructed <=> met.psnr.kind = "inf"
    /\ met.psnr.kind # "inf" => IsFinite(met.psnr)
    /\ IsZero(met.mse_same)

\* C17: no metric divides by zero: calculate_compression_ratio is +infinity
\* when the compressed size is 0, calculate_space_saved is 0 when the
\* original size is 0, calculate_bits_per_pixel is 0 when the pixel count is
\* 0, and comprehensive_quality_analysis reports entropy_reduction 0 when the
\* original entropy is 0 and efficiency_percent 0 when the compressed size
\* is 0.
C17_NoDivisionByZero ==
  met # Nothing =>
    /\ met.compression_ratio.kind # "ZeroDivisionError"
    /\ met.space_saved.kind # "ZeroDivisionError"
    /\ met.bits_per_pixel.kind # "ZeroDivisionError"
    /\ met.compressed_size = 0 => met.compression_ratio.kind = "inf"
    /\ met.original_size = 0 => IsZero(met.space_saved)
    /\ Len(met.original.data) = 0 => IsZero(met.bits_per_pixel)
    /\ met.analysis # Nothing =>
         /\ \A k \in {"entropy_reduction", "compression_ratio", "space_saved_percent",
                      "bits_per_pixel", "efficiency_percent"} :
              met.analysis[k].kind # "ZeroDivisionError"
         /\ met.analysis.original_entropy = 0 => IsZero(met.analysis.entropy_reduction)
         /\ met.compressed_size = 0 => IsZero(met.analysis.efficiency_percent)

\* the bits per pixel of no pixel at all, with a payload of some bytes
C17_Witness ==
  /\ met # Nothing
  /\ Len(met.original.data) = 0
  /\ met.compressed_size > 0
  /\ IsZero(met.bits_per_pixel)

\* the analysis of an image of one value with a payload of no byte
C17_WitnessAnalysis ==
  /\ met # Nothing /\ met.analysis # Nothing
  /\ met.analysis.original_entropy = 0
  /\ met.compressed_size = 0 /\ met.original_size = 0
  /\ IsZero(met.analysis.efficiency_percent)

\* C18: after a reconstruct call that returned, whichever path it took
\* (normal decode, invalid shape, too-short payload), get_stats() returns a
\* record that has a 'method' entry and describes that call; it is never
\* empty and never the record of an earlier call.
C18_StatsPerInvocation ==
  (dec # Nothing /\ ~dec.result.raised) =>
     /\ "method" \in DOMAIN recon.stats
     /\ recon.stats.method = StatsMethod(dec.rcls)

FreshHuffman(img) ==
  LET r == HuffmanCompress(img, <<<<>>>>, NewCompressor.huffman_codes)
  IN  [payload |-> r.payload, huffman_codes |-> r.objs[r.metadata.huffman_codes]]

TwinCompress(a, b) ==
  /\ twin = Nothing
  /\ twin' = [a |-> a, b |-> b, first |-> FreshHuffman(a), second |-> FreshHuffman(b)]
  /\ UNCHANGED <<method, comp, objs, published, recon, pc, image, out, result, dec, cli, file, met, qualifier, auto>>

NextTwin ==
  /\ twin = Nothing
  /\ \E a \in Images : \E b \in {i \in Images : i.shape = a.shape} : TwinCompress(a, b)

InitTwin == Init /\ method = K_huffman

SpecTwin == InitTwin /\ [][NextTwin]_vars

\* the two images have the same symbol frequencies
SameFrequencies ==
  \A v \in Symbols : Count(twin.a.data, v) = Count(twin.b.data, v)

\* C20: two new HuffmanCompressor instances given equal images produce
\* identical code tables and byte-identical payloads, and the table, ties
\* between nodes of equal frequency included, depends only on the symbol
\* frequencies of the image.
C20_Reproducible ==
  twin # Nothing =>
    /\ twin.a = twin.b =>
         /\ twin.first.huffman_codes = twin.second.huffman_codes
         /\ twin.first.payload = twin.second.payload
    /\ SameFrequencies => twin.first.huffman_codes = twin.second.huffman_codes

\* two different images of three equally frequent symbols got one table
C20_Witness ==
  /\ twin # Nothing
  /\ twin.a # twin.b
  /\ SameFrequencies
  /\ Len(twin.first.huffman_codes) = 3
  /\ twin.first.huffman_codes = twin.second.huffman_codes
  /\ twin.first.payload # twin.second.payload

(***************************************************************************)
(* utils/paths.py: the qualifier tag of an output file name.  A quality is *)
(* given in hundredths, the values f"{quality:.2f}" prints exactly.        *)
(***************************************************************************)
MaxHundredths == 120

\* f"{quality:.2f}", as ASCII bytes
format_2f(hundredths) ==
  int_to_str(hundredths \div 100) \o <<46>>
    \o int_to_str((hundredths % 100) \div 10) \o int_to_str(hundredths % 10)

RECURSIVE lstrip(_, _)
\* str.lstrip(chars), for one character
lstrip(s, c) ==
  IF s # <<>> /\ Head(s) = c THEN lstrip(Tail(s), c) ELSE s

\* quality_qualifier: 46 is ".", 48 is "0", 113 is "q"
quality_qualifier(hundredths) ==
  LET stripped == lstrip(replace(format_2f(hundredths), <<46>>), 48)
      tag == IF stripped = <<>> THEN <<48>> ELSE stripped
  IN  <<113>> \o tag

QualityQualifier(hundredths) ==
  /\ qualifier = Nothing
  /\ qualifier' = [quality |-> hundredths, tag |-> quality_qualifier(hundredths)]
  /\ UNCHANGED <<method, comp, objs, published, recon, pc, image, out, result, dec, cli, file, met, twin, auto>>

NextPaths == \E hundredths \in 0..MaxHundredths : QualityQualifier(hundredths)

InitPaths == Init /\ method = K_dct

SpecPaths == InitPaths /\ [][NextPaths]_vars

\* C21: quality_qualifier gives the tags of its documentation: 'q08' for
\* 0.8, 'q10' for 1.0 and 'q025' for 0.25 (tags as ASCII bytes).
C21_DocumentedTags ==
  qualifier # Nothing =>
    /\ qualifier.quality = 80 => qualifier.tag = <<113, 48, 56>>
    /\ qualifier.quality = 100 => qualifier.tag = <<113, 49, 48>>
    /\ qualifier.quality = 25 => qualifier.tag = <<113, 48, 50, 53>>

(***************************************************************************)
(* The run-length payload.                                                 *)
(***************************************************************************)
\* an RLE compress call on a non-empty image has returned
RleEncoded ==
  /\ method = K_rle
  /\ pc = "compressed"
  /\ ~out.raised
  /\ Len(image.data) > 0

\* the (value, run_length) pairs of a payload, expanded in order
ExpandPairs(payload) ==
  LET Step(acc, k) == acc \o Repeat(payload[2 * k - 1], payload[2 * k])
  IN  Fold(Step, <<>>, 1, Len(payload) \div 2)

\* C22: RLE encode of a non-empty image emits (value, run_length) byte
\* pairs: every run_length is in 1..255, the pairs expanded in order are
\* the row-major flattening of the image, and two consecutive pairs carry
\* the same value only when the first of them has run_length 255.
C22_RlePairs ==
  RleEncoded =>
    LET payload == out.payload
        n == Len(payload) \div 2
    IN  /\ Len(payload) = 2 * n
        /\ n >= 1
        /\ \A k \in 1..n : payload[2 * k - 1] \in 0..255 /\ payload[2 * k] \in 1..RunCap
        /\ ExpandPairs(payload) = image.data
        /\ \A k \in 1..(n - 1) :
             payload[2 * k - 1] = payload[2 * k + 1] => payload[2 * k] = RunCap

\* a run longer than 255 was split into a full pair and a pair of the same
\* value, followed by a pair of another value
C22_Witness ==
  /\ RleEncoded
  /\ Len(image.data) > RunCap
  /\ Len(out.payload) = 6
  /\ out.payload[1] = out.payload[3]
  /\ out.payload[2] = RunCap
  /\ out.payload[5] # out.payload[3]

\* no two consecutive symbols of the flattened image are equal
NoRepeats ==
  \A i \in 1..(Len(image.data) - 1) : image.data[i] # image.data[i + 1]

\* C23: for an image in which no two consecutive symbols are equal the RLE
\* payload is twice as long as the image, one (value, 1) pair per symbol,
\* and the compression_ratio statistic is 0.5.
C23_AlternatingExpands ==
  (RleEncoded /\ NoRepeats) =>
    /\ Len(out.payload) = 2 * Len(image.data)
    /\ \A i \in DOMAIN image.data :
         out.payload[2 * i - 1] = image.data[i] /\ out.payload[2 * i] = 1
    /\ comp.stats.compression_ratio.kind = "num"
    /\ 2 * comp.stats.compression_ratio.num = comp.stats.compression_ratio.den

\* an image of at least three symbols, alternating between two values
C23_Witness ==
  /\ RleEncoded
  /\ NoRepeats
  /\ Len(image.data) >= 3
  /\ image.data[1] = image.data[3]
  /\ Len(out.payload) = 2 * Len(image.data)

(***************************************************************************)
(* The differential encoder's record.                                      *)
(***************************************************************************)
\* a differential compress call has returned
DiffEncoded ==
  /\ method = K_differential
  /\ pc = "compressed"
  /\ ~out.raised

\* the absolute differences between consecutive symbols of the image
Deltas ==
  {Abs(image.data[i + 1] - image.data[i]) : i \in 1..(Len(image.data) - 1)}

\* C24: the max_diff field written by the differential encoder is the
\* maximum absolute difference between consecutive symbols of the flattened
\* image, and is 0 for an image of one symbol or of all-equal symbols.
C24_MaxObservedDelta ==
  DiffEncoded =>
    /\ \A d \in Deltas : d <= out.metadata.max_diff
    /\ out.metadata.max_diff \in Deltas \cup {0}
    /\ Deltas \subseteq {0} => out.metadata.max_diff = 0

(***************************************************************************)
(* The differential decoder on arbitrary 16-bit values.                    *)
(***************************************************************************)
\* the differential decoder was given a payload of whole 16-bit values
DiffDecoded ==
  /\ dec # Nothing
  /\ dec.rcls = "DifferentialReconstructor"
  /\ Len(dec.payload) % 2 = 0
  /\ ~dec.result.raised

\* the sum of values 1..i of the payload
RunningSum(i) ==
  LET values == int16_frombuffer(dec.payload)
      Step(acc, k) == acc + values[k]
  IN  Fold(Step, 0, 1, i)

Clip(x) == IF x < 0 THEN 0 ELSE IF x > 255 THEN 255 ELSE x

\* C25: differential decode of a payload of 16-bit signed values yields at
\* each position the running sum of the values up to it, clipped to 0..255:
\* a sum below 0 gives 0 and a sum above 255 gives 255.
C25_RunningSumClipped ==
  DiffDecoded =>
    \A i \in 1..(Len(dec.payload) \div 2) :
      i <= Len(dec.result.data) => dec.result.data[i] = Clip(RunningSum(i))

(***************************************************************************)
(* A DCT session: DCTCompressor(block_size, quality).compress(img), then   *)
(* DCTReconstructor().reconstruct(payload, metadata) on the record the     *)
(* encoder returned and a payload of any length.                           *)
(***************************************************************************)
MaxSide == 3

\* the images of a DCT session: the transform's values are not modelled, so
\* one image per shape
DctImages ==
  {[shape |-> <<h, w>>, data |-> Repeat(0, h * w)] : h, w \in 1..MaxSide}

BlockSizes == {1, 2, 3, DefaultBlockSize}

\* the quality argument, in tenths
Qualities == {-5, 0, 1, 5, 8, 10, 11, 25}

\* the payloads a DCT record is decoded with, given the length of the
\* payload the encoder returned
DctPayloads(n) ==
  {Repeat(CoeffByte, k) : k \in {0, 3, 4, n, n + 4} \cup {Max2(n - 4, 0)}}

CompressDct(img, block_size, quality) ==
  /\ pc = "idle"
  /\ comp.calls = 0
  /\ LET self_quality == clamp_quality(quality)
         r == DCTCompress(img, block_size, self_quality)
     IN  /\ image' = img
         /\ out' = IF r.raised THEN r
                   ELSE [raised |-> FALSE, payload |-> r.payload, metadata |-> r.metadata]
         /\ comp' = [calls |-> 1,
                     stats |-> IF r.raised THEN comp.stats ELSE r.stats,
                     original_shape |-> Tuple(img.shape),
                     huffman_codes |-> comp.huffman_codes,
                     args |-> [block_size |-> block_size, quality |-> quality],
                     quant_matrix |-> quantize_matrix(block_size, self_quality)]
  /\ pc' = "compressed"
  /\ UNCHANGED <<method, objs, published, recon, result, dec, cli, file, met, twin, qualifier, auto>>

ReconstructDct(compressed_bytes) ==
  /\ pc = "compressed"
  /\ ~out.raised
  /\ dec = Nothing
  /\ LET metadata == out.metadata
         r == DCTReconstruct(compressed_bytes, metadata)
     IN  /\ dec' = [rcls |-> "DCTReconstructor", payload |-> compressed_bytes,
                    metadata |-> metadata, result |-> r,
                    dequantized |-> DCTDequantizes(compressed_bytes, metadata),
                    quant_matrix |->
                      IF DCTDequantizes(compressed_bytes, metadata)
                      THEN dequantize_matrix(Get(metadata, "quality", 8),
                                             Get(metadata, "block_size", DefaultBlockSize))
                      ELSE <<>>]
         /\ recon' = [calls |-> recon.calls + 1,
                      stats |-> IF DCTSetsStats(compressed_bytes, metadata)
                                THEN [method |-> M_DCTReconstruction]
                                ELSE recon.stats]
  /\ pc' = "reconstructed"
  /\ UNCHANGED <<method, comp, objs, published, image, out, result, cli, file, met, twin, qualifier, auto>>

NextDct ==
  \/ \E img \in DctImages : \E block_size \in BlockSizes : \E quality \in Qualities :
       CompressDct(img, block_size, quality)
  \/ \E compressed_bytes \in DctPayloads(IF pc = "compressed" /\ ~out.raised
                                         THEN Len(out.payload) ELSE 0) :
       ReconstructDct(compressed_bytes)

InitDct == Init /\ method = K_dct

SpecDct == InitDct /\ [][NextDct]_vars

\* the DCT encoder has returned a payload and a record
DctEncoded ==
  /\ "args" \in DOMAIN comp
  /\ pc # "idle"
  /\ ~out.raised

\* the smallest multiple of b not below n
RoundUp(n, b) ==
  CHOOSE m \in n..(n + b) : m % b = 0 /\ \A k \in n..(m - 1) : k % b # 0

\* the layout of the DCT payload and the fields of the record
DctLayout ==
  LET b == comp.args.block_size
      padded_h == RoundUp(image.shape[1], b)
      padded_w == RoundUp(image.shape[2], b)
  IN  /\ out.metadata.padded_shape = Tuple(<<padded_h, padded_w>>)
      /\ out.metadata.num_blocks = (padded_h \div b) * (padded_w \div b)
      /\ out.metadata.block_size = b
      /\ Len(out.payload) = 4 * padded_h * padded_w

\* C26: DCT encode of an H x W image with block size b pads to (H', W'), the
\* smallest multiples of b not below H and W, and emits (H'/b)*(W'/b) blocks
\* of 32-bit floats, so the payload is 4*H'*W' bytes; padded_shape and
\* num_blocks of the record equal those values, and decoding any payload
\* with that record returns an array of shape (H, W).
C26_DctLayoutAndShape ==
  DctEncoded =>
    /\ DctLayout
    /\ dec # Nothing => ~dec.result.raised /\ dec.result.shape = image.shape

\* the encode part of the statement alone, and decode for the payloads that
\* hold whole 32-bit floats
C26_WholeFloats ==
  DctEncoded =>
    /\ DctLayout
    /\ (dec # Nothing /\ Len(dec.payload) % 4 = 0) =>
         ~dec.result.raised /\ dec.result.shape = image.shape

\* C27: the quality given to the DCT encoder is clamped to [0.1, 1.0] (1..10
\* in tenths) and the clamped value is recorded in the metadata; the step
\* matrix the decoder derives from the metadata is, entry for entry, the one
\* the encoder divided by, step[i][j] = 1 + (i + j) / quality.
C27_SameStepMatrix ==
  DctEncoded =>
    LET given == comp.args.quality
        quality == out.metadata.quality
        b == comp.args.block_size
    IN  /\ quality \in 1..10
        /\ given \in 1..10 => quality = given
        /\ given < 1 => quality = 1
        /\ given > 10 => quality = 10
        /\ \A i, j \in 0..(b - 1) :
             /\ comp.quant_matrix[i + 1][j + 1].kind = "num"
             /\ comp.quant_matrix[i + 1][j + 1].num * quality
                  = (quality + 10 * (i + j)) * comp.quant_matrix[i + 1][j + 1].den
        /\ (dec # Nothing /\ dec.dequantized) =>
             /\ DOMAIN dec.quant_matrix = 1..b
             /\ \A i \in 1..b : DOMAIN dec.quant_matrix[i] = 1..b
             /\ \A i, j \in 1..b : dec.quant_matrix[i][j] = comp.quant_matrix[i][j]

\* a quality above 1.0 was clamped, and the decoder dequantized a block of
\* three by three coefficients
C27_Witness ==
  /\ DctEncoded
  /\ comp.args.quality = 25
  /\ out.metadata.quality = 10
  /\ comp.args.block_size = 3
  /\ dec # Nothing
  /\ dec.dequantized
  /\ dec.quant_matrix[3][3] = Num(50, 10)

\* a quality below 0.1 was clamped and the encoder's matrix was rebuilt
C27_WitnessLow ==
  /\ DctEncoded
  /\ comp.args.quality = -5
  /\ out.metadata.quality = 1
  /\ dec # Nothing
  /\ dec.dequantized
  /\ dec.quant_matrix = comp.quant_matrix

(***************************************************************************)
(* A sparse session: SparseCompressor(sampling_rate).compress(img), then   *)
(* SparseReconstructor().reconstruct on what the encoder returned.         *)
(***************************************************************************)
\* a stride that reaches the last two-byte row of a tall image in two steps
HalfStride == (U16Max + 1) \div 2
\* the height of the tallest image whose rows all fit two bytes
FitLen == U16Max + 1

\* 2-D images whose pixels differ from place to place
GradientImages ==
  {[shape |-> <<h, w>>, data |-> [i \in 1..(h * w) |-> (37 * i) % 256]] :
     h, w \in 1..MaxSide}

\* one-column images of FitLen and FitLen + 1 rows
TallImages ==
  {[shape |-> <<n, 1>>, data |-> [i \in 1..n |-> i % 256]] : n \in {FitLen, FitLen + 1}}

\* the image and sampling rate of a sparse session
SparseInputs ==
  ({i \in Images : Len(i.shape) = 2} \cup GradientImages)
     \X {1, 2, 3, DefaultSamplingRate}
  \cup (TallImages \X {HalfStride})

CompressSparse(img, sampling_rate) ==
  /\ pc = "idle"
  /\ comp.calls = 0
  /\ LET r == SparseCompress(img, sampling_rate)
     IN  /\ image' = img
         /\ out' = IF r.raised THEN r
                   ELSE [raised |-> FALSE, payload |-> r.payload, metadata |-> r.metadata]
         /\ comp' = [calls |-> 1,
                     stats |-> IF r.raised THEN comp.stats ELSE r.stats,
                     original_shape |-> Tuple(img.shape),
                     huffman_codes |-> comp.huffman_codes,
                     sampling_rate |-> sampling_rate]
  /\ pc' = "compressed"
  /\ UNCHANGED <<method, objs, published, recon, result, dec, cli, file, met, twin, qualifier, auto>>

ReconstructSparse ==
  /\ pc = "compressed"
  /\ ~out.raised
  /\ dec = Nothing
  /\ LET compressed_bytes == out.payload
         metadata == out.metadata
         shape == Get(metadata, "original_shape", Get(metadata, "shape", None))
     IN  /\ dec' = [rcls |-> "SparseReconstructor", payload |-> compressed_bytes,
                    metadata |-> metadata,
                    result |-> SparseReconstruct(compressed_bytes, metadata),
                    parsed |-> SparseParses(compressed_bytes, metadata),
                    known_pixels |->
                      IF SparseParses(compressed_bytes, metadata)
                      THEN sparse_parse(compressed_bytes, shape.v[1], shape.v[2])
                      ELSE <<>>]
         /\ recon' = [calls |-> recon.calls + 1,
                      stats |-> IF SparseSetsStats(compressed_bytes, metadata)
                                THEN [method |-> M_SparseReconstruction]
                                ELSE recon.stats]
  /\ pc' = "reconstructed"
  /\ UNCHANGED <<method, comp, objs, published, image, out, result, cli, file, met, twin, qualifier, auto>>

NextSparse ==
  \/ \E input \in SparseInputs : CompressSparse(input[1], input[2])
  \/ ReconstructSparse

InitSparse == Init /\ method = K_sparse

SpecSparse == InitSparse /\ [][NextSparse]_vars

\* SparseCompressor(sampling_rate).compress(image) has been called
SparseCalled ==
  /\ "sampling_rate" \in DOMAIN comp
  /\ pc # "idle"

\* the coordinates inside the grid whose row and column are multiples of the
\* stride
Coords ==
  {<<r, c>> \in (0..(image.shape[1] - 1)) \X (0..(image.shape[2] - 1)) :
     r % comp.sampling_rate = 0 /\ c % comp.sampling_rate = 0}

\* the place of a coordinate in row-major order
Rank(p) ==
  Cardinality({q \in Coords : q[1] < p[1] \/ (q[1] = p[1] /\ q[2] < p[2])}) + 1

CeilDiv(a, b) == (a + b - 1) \div b

\* the payload is the count and one record per coordinate, in row-major
\* order, and the decoder's parse gives the coordinate-to-value mapping
SparseLayout ==
  LET width == image.shape[2]
      samples == CeilDiv(image.shape[1], comp.sampling_rate)
                   * CeilDiv(width, comp.sampling_rate)
  IN  /\ ~out.raised
      /\ Cardinality(Coords) = samples
      /\ Len(out.payload) = 4 + 5 * samples
      /\ SubSeq(out.payload, 1, 4)
           = <<0, (samples \div 65536) % 256, (samples \div 256) % 256, samples % 256>>
      /\ \A p \in Coords :
           LET o == 4 + 5 * (Rank(p) - 1)
           IN  /\ 256 * out.payload[o + 1] + out.payload[o + 2] = p[1]
               /\ 256 * out.payload[o + 3] + out.payload[o + 4] = p[2]
               /\ out.payload[o + 5] = image.data[p[1] * width + p[2] + 1]
      /\ dec # Nothing =>
           /\ dec.parsed
           /\ Len(dec.known_pixels) = samples
           /\ {dec.known_pixels[k] : k \in DOMAIN dec.known_pixels}
                = {<<p, image.data[p[1] * width + p[2] + 1]>> : p \in Coords}

\* C28: sparse encode of an H x W image with stride N samples exactly the
\* coordinates whose row and column are multiples of N, in row-major order,
\* and writes a 4-byte big-endian count and one 5-byte (row, col, value)
\* record per sample, 4 + 5 * ceil(H/N) * ceil(W/N) bytes in all; the
\* decoder's parse of the payload recovers that coordinate-to-value mapping.
C28_SparseLayout ==
  SparseCalled => SparseLayout

\* every sampled row and column fits the two bytes of its field
FitsTwoBytes ==
  \A p \in Coords : p[1] <= U16Max /\ p[2] <= U16Max

\* C28, amended: the statement holds for the images whose sampled rows and
\* columns are at most 65535; for the others the encoder raises struct.error
\* and returns no payload.
C28_SparseLayoutTwoByte ==
  SparseCalled =>
    IF FitsTwoBytes THEN SparseLayout
    ELSE out.raised /\ out.error = "struct.error"

\* a three by three image sampled with stride 2: four records, parsed back
C28_Witness ==
  /\ SparseCalled
  /\ image.shape = <<3, 3>>
  /\ comp.sampling_rate = 2
  /\ Len(out.payload) = 24
  /\ dec # Nothing
  /\ Len(dec.known_pixels) = 4
  /\ dec.known_pixels[4] = <<<<2, 2>>, image.data[9]>>

\* a sampled row that needs both bytes of its field
C28_WitnessTall ==
  /\ SparseCalled
  /\ image.shape = <<FitLen, 1>>
  /\ ~out.raised
  /\ SubSeq(out.payload, 10, 14) = <<128, 0, 0, 0, image.data[HalfStride + 1]>>
  /\ dec # Nothing
  /\ dec.parsed

(***************************************************************************)
(* The compression_ratio statistic.                                        *)
(***************************************************************************)
\* two floats are the same number
SameFloat(x, y) ==
  /\ x.kind = y.kind
  /\ x.kind = "num" => x.num * y.den = y.num * x.den

\* C29: for every codec and every non-empty image, the compression_ratio
\* statistic reported after compress equals calculate_compression_ratio of
\* the number of bytes of the image and the length of the returned payload;
\* for Naive it is 1.0.
C29_RatioIsBytesOverBytes ==
  (pc = "compressed" /\ ~out.raised /\ Len(image.data) > 0) =>
    /\ SameFloat(comp.stats.compression_ratio,
                 calculate_compression_ratio(Len(image.data), Len(out.payload)))
    /\ method = K_naive => SameFloat(comp.stats.compression_ratio, Num(1, 1))

\* the statement for the codecs that divide bytes by bytes
C29_NaiveRleDct ==
  (pc = "compressed" /\ ~out.raised /\ Len(image.data) > 0
     /\ method \in {K_naive, K_rle, K_dct}) =>
    /\ SameFloat(comp.stats.compression_ratio,
                 calculate_compression_ratio(Len(image.data), Len(out.payload)))
    /\ method = K_naive => SameFloat(comp.stats.compression_ratio, Num(1, 1))

(***************************************************************************)
(* cli.py: the encode command with --method auto (the default).            *)
(***************************************************************************)
K_auto == <<"a", "u", "t", "o">>

MaxRamp == 34
LeadLen == 90

\* lead zeros, then len symbols that go up by step
Ramp(lead, len, step) ==
  Repeat(0, lead) \o [i \in 1..len |-> ((i - 1) * step) % 256]

\* the images load_image returns to the encode command: at least one pixel
AutoImages ==
  {[shape |-> <<1, lead + len>>, data |-> Ramp(lead, len, step)] :
     lead \in {0, LeadLen}, len \in 1..MaxRamp, step \in {0, 1, 7}}
  \cup {i \in Images : Len(i.shape) = 3}

\* analyze_data_distribution, 'unique_values': len(np.unique(flat_data))
unique_values(flat_data) == Cardinality(Range(flat_data))

\* analyze_data_distribution, 'std' < bound: np.std is the square root of
\* the mean squared deviation, so std < bound exactly when
\* n * sum(x^2) - sum(x)^2 < bound^2 * n^2
std_below(flat_data, bound) ==
  LET n == Len(flat_data)
      Sum(acc, i) == acc + flat_data[i]
      SumSq(acc, i) == acc + flat_data[i] * flat_data[i]
  IN  n * Fold(SumSq, 0, 1, n) - Fold(Sum, 0, 1, n) * Fold(Sum, 0, 1, n)
        < bound * bound * n * n

\* the decision with rle for at most 32 distinct values
auto_select_method_loose(img) ==
  IF unique_values(img.data) <= 32 THEN K_rle
  ELSE IF calculate_entropy(img.data) < 3 * Log2Unit THEN K_differential
  ELSE IF std_below(img.data, 30) THEN K_differential
  ELSE K_huffman

\* _auto_select_method
auto_select_method(img) ==
  IF unique_values(img.data) < 32 THEN K_rle
  ELSE IF calculate_entropy(img.data) < 3 * Log2Unit THEN K_differential
  ELSE IF std_below(img.data, 30) THEN K_differential
  ELSE K_huffman

\* _encode_image from the lookup in COMPRESSORS on: a new instance of the
\* class compresses the image
EncodeSelected(img, selected) ==
  LET compressor_class == IF selected \in DOMAIN COMPRESSORS
                          THEN COMPRESSORS[selected] ELSE NoClass
  IN  /\ auto' = [image |-> img, method |-> selected,
                  compressor_class |-> compressor_class]
      /\ method' = selected
      /\ IF compressor_class = NoClass
         THEN \* sys.exit(1)
              /\ pc' = "exit"
              /\ image' = img
              /\ UNCHANGED <<out, comp, objs, published>>
         ELSE /\ pc' = "compressed"
              /\ CompressReturns(compressor_class, img,
                                 CompressCall(compressor_class, img, objs,
                                              comp.huffman_codes))

\* _encode_image with method 'auto': the method is selected first
EncodeAuto(img) ==
  /\ pc = "idle"
  /\ method = K_auto
  /\ EncodeSelected(img, auto_select_method(img))
  /\ UNCHANGED <<recon, result, dec, cli, file, met, twin, qualifier>>

NextAuto == (\E img \in AutoImages : EncodeAuto(img)) \/ WriteFile

InitAuto ==
  /\ method = K_auto
  /\ comp = NewCompressor
  /\ objs = <<<<>>>>
  /\ published = {}
  /\ recon = NewReconstructor
  /\ pc = "idle"
  /\ image = EmptyImage
  /\ out = Nothing
  /\ result = Nothing
  /\ dec = Nothing
  /\ cli = Nothing
  /\ file = Nothing
  /\ met = Nothing
  /\ twin = Nothing
  /\ qualifier = Nothing
  /\ auto = Nothing

SpecAuto == InitAuto /\ [][NextAuto]_vars

\* C30: automatic method selection returns one of rle, differential and
\* huffman, never naive and never a lossy method; the key is registered in
\* the compressor and in the reconstructor registry, and it is rle exactly
\* when the image has fewer than 32 distinct values.
C30_AutoSelectsLossless ==
  auto # Nothing =>
    /\ auto.method \in {K_rle, K_differential, K_huffman}
    /\ auto.method \notin {K_naive, K_sparse, K_dct}
    /\ auto.method \in DOMAIN COMPRESSORS
    /\ auto.method \in DOMAIN RECONSTRUCTORS
    /\ auto.compressor_class # NoClass
    /\ auto.method = K_rle <=> Cardinality(Range(auto.image.data)) < 32
    /\ pc = "written" => out.metadata.method = auto.method

\* an image of exactly 32 distinct values was given to Huffman and written
C30_Witness ==
  /\ auto # Nothing
  /\ Cardinality(Range(auto.image.data)) = 32
  /\ auto.method = K_huffman
  /\ pc = "written"

\* an image of more than 32 distinct values was given to differential
C30_WitnessDifferential ==
  /\ auto # Nothing
  /\ Cardinality(Range(auto.image.data)) > 32
  /\ auto.method = K_differential
  /\ pc = "written"
=============================================================================
